---- MODULE Spec2Model ----
(***************************************************************************)
(* A model of the churn-detection engines of ROSI9979/churn-detection:     *)
(* ProductLevelChurnEngine (src/product_level_churn.py) and the grouping   *)
(* step of CompetitorIntelligenceEngine (src/competitor_intelligence.py).  *)
(*                                                                         *)
(* The engines are single-shot batch computations.  The state is one call  *)
(* frame: the method called, its arguments, where the call stands ("call", *)
(* "return", "raise") and what it returned or raised.                      *)
(*                                                                         *)
(* Representation of Python values                                         *)
(*   None          [t |-> "none"]                                          *)
(*   int / float   [t |-> "num", v |-> n]                                  *)
(*   str           [t |-> "str", v |-> s]                                  *)
(*   an ISO-8601 date string of day number d   [t |-> "iso", d |-> d]       *)
(*   a dict        a function whose DOMAIN is the set of its keys          *)
(* Quantities and values are integers, so every rate the engine computes   *)
(* (a sum / 8, a sum / 4) is a dyadic rational that binary floating point  *)
(* represents exactly; rates are kept as integers in units of 1/8.         *)
(***************************************************************************)
EXTENDS Integers, Sequences, FiniteSets, TLC

(***************************************************************************)
(* Bounds of the model.                                                    *)
(***************************************************************************)
MaxWords == 2
MaxOrders == 2
MaxRawOrders == 2
MaxRate == 20
MaxExtra == 2
MaxCompetitorOrders == 2
MaxSignals == 2

(***************************************************************************)
(* Program constants.                                                      *)
(***************************************************************************)
lookback_weeks == 12
baseline_weeks == 8
stopped_weeks == 4
decline_pct == 40
critical_decline_pct == 70
growth_pct == 20
recent_weeks == 4
history_len == 20
DaysPerWeek == 7

(***************************************************************************)
(* Python values.                                                          *)
(***************************************************************************)
None == [t |-> "none"]
Num(n) == [t |-> "num", v |-> n]
Str(s) == [t |-> "str", v |-> s]
Iso(d) == [t |-> "iso", d |-> d]

\* bool(v): None, 0 and "" are falsy.
Truthy(v) ==
    CASE v.t = "none" -> FALSE
      [] v.t = "num" -> v.v # 0
      [] v.t = "str" -> v.v # ""
      [] OTHER -> TRUE

\* a or b
Or(a, b) == IF Truthy(a) THEN a ELSE b

\* order.get(k, default)
Get(order, k, default) == IF k \in DOMAIN order THEN order[k] ELSE default

\* The numeric strings of the inputs, with the number each denotes.
NumericStrings == {"7"}
NumberOf(s) == CASE s = "7" -> 7

\* float(v): the exception it raises, or "" when it returns.
FloatRaises(v) ==
    CASE v.t = "num" -> ""
      [] v.t = "str" -> IF v.v \in NumericStrings THEN "" ELSE "ValueError"
      [] OTHER -> "TypeError"

\* float(v) when it returns.
Float(v) == IF v.t = "num" THEN v.v ELSE NumberOf(v.v)

(***************************************************************************)
(* Strings: str.lower() and the substring test `a in b`.                   *)
(***************************************************************************)
UpperCase == "ABCDEFGHIJKLMNOPQRSTUVWXYZ"
LowerCase == "abcdefghijklmnopqrstuvwxyz"

LowerChar(c) ==
    IF \E i \in 1..Len(UpperCase) : SubSeq(UpperCase, i, i) = c
    THEN LET i == CHOOSE j \in 1..Len(UpperCase) : SubSeq(UpperCase, j, j) = c
         IN  SubSeq(LowerCase, i, i)
    ELSE c

RECURSIVE Lower(_)
Lower(s) ==
    IF Len(s) = 0 THEN ""
    ELSE LowerChar(SubSeq(s, 1, 1)) \o Lower(SubSeq(s, 2, Len(s)))

\* a in b
In(a, b) == \E i \in 1..(Len(b) - Len(a) + 1) : SubSeq(b, i, i + Len(a) - 1) = a

(***************************************************************************)
(* ProductLevelChurnEngine.category_synonyms, in declaration order.        *)
(***************************************************************************)
category_synonyms ==
    << [category |-> "chicken",
        synonyms |-> <<"chicken", "poultry", "wings", "breast", "thighs">>],
       [category |-> "drinks",
        synonyms |-> <<"drinks", "beverages", "soft drinks", "cola", "water", "juice">>],
       [category |-> "cheese",
        synonyms |-> <<"cheese", "dairy", "cheddar", "mozzarella">>],
       [category |-> "dips",
        synonyms |-> <<"dips", "sauce", "condiments", "mayo", "ketchup">>],
       [category |-> "produce",
        synonyms |-> <<"vegetables", "produce", "salad", "lettuce", "tomato">>] >>

\* any(syn in raw_lower for syn in synonyms)
AnySynonymIn(synonyms, raw_lower) ==
    \E k \in 1..Len(synonyms) : In(synonyms[k], raw_lower)

\* The loop of normalize_category from the i-th entry on.
RECURSIVE NormalizeFrom(_, _)
NormalizeFrom(i, raw_lower) ==
    IF i > Len(category_synonyms) THEN raw_lower
    ELSE IF AnySynonymIn(category_synonyms[i].synonyms, raw_lower)
         THEN category_synonyms[i].category
         ELSE NormalizeFrom(i + 1, raw_lower)

\* normalize_category with the table scanned from its last entry to its first.
RECURSIVE NormalizeBackFrom(_, _)
NormalizeBackFrom(i, raw_lower) ==
    IF i < 1 THEN raw_lower
    ELSE IF AnySynonymIn(category_synonyms[i].synonyms, raw_lower)
         THEN category_synonyms[i].category
         ELSE NormalizeBackFrom(i - 1, raw_lower)

normalize_category_backwards(raw_category) ==
    NormalizeBackFrom(Len(category_synonyms), Lower(raw_category))

\* normalize_category with the synonyms searched in the label as given, the
\* lower-cased label being returned when none is found.
normalize_category_case_sensitive(raw_category) ==
    IF \E i \in 1..Len(category_synonyms) :
           AnySynonymIn(category_synonyms[i].synonyms, raw_category)
    THEN NormalizeFrom(1, raw_category)
    ELSE Lower(raw_category)

normalize_category(raw_category) == NormalizeFrom(1, Lower(raw_category))

(***************************************************************************)
(* ProductLevelChurnEngine.parse_orders.  The grouped result, a dict of    *)
(* dicts of lists, is the sequence of its (customer, category) entries in  *)
(* the order a nested iteration visits them: customers in order of first   *)
(* appearance, and each customer's categories in order of first            *)
(* appearance.                                                             *)
(***************************************************************************)
HasKey(grouped, customer_id, category) ==
    \E i \in 1..Len(grouped) :
        grouped[i].customer_id = customer_id /\ grouped[i].category = category

HasCustomer(grouped, customer_id) ==
    \E i \in 1..Len(grouped) : grouped[i].customer_id = customer_id

\* grouped[customer_id][category].append(entry)
GroupAppend(grouped, customer_id, category, entry) ==
    IF HasKey(grouped, customer_id, category)
    THEN LET at == CHOOSE i \in 1..Len(grouped) :
                       /\ grouped[i].customer_id = customer_id
                       /\ grouped[i].category = category
         IN  SubSeq(grouped, 1, at - 1)
                 \o <<[customer_id |-> customer_id, category |-> category,
                       orders |-> Append(grouped[at].orders, entry)]>>
                 \o SubSeq(grouped, at + 1, Len(grouped))
    ELSE LET new == [customer_id |-> customer_id, category |-> category,
                     orders |-> <<entry>>]
         IN  IF HasCustomer(grouped, customer_id)
             THEN LET last == CHOOSE i \in 1..Len(grouped) :
                                  /\ grouped[i].customer_id = customer_id
                                  /\ \A j \in (i + 1)..Len(grouped) :
                                         grouped[j].customer_id # customer_id
                  IN  SubSeq(grouped, 1, last) \o <<new>>
                          \o SubSeq(grouped, last + 1, Len(grouped))
             ELSE Append(grouped, new)

\* order.get('customer_id') or order.get('customer') or order.get('account')
CustomerOf(order) ==
    Or(Or(Get(order, "customer_id", None), Get(order, "customer", None)),
       Get(order, "account", None))

\* order.get('product') or order.get('item') or order.get('category')
ProductOf(order) ==
    Or(Or(Get(order, "product", None), Get(order, "item", None)),
       Get(order, "category", None))

\* order.get('date') or order.get('order_date')
DateOf(order) == Or(Get(order, "date", None), Get(order, "order_date", None))

\* order.get('quantity', 0) or order.get('qty', 0) or 1
QuantityOf(order) ==
    Or(Or(Get(order, "quantity", Num(0)), Get(order, "qty", Num(0))), Num(1))

\* order.get('value', 0) or order.get('amount', 0) or order.get('total', 0)
ValueOf(order) ==
    Or(Or(Get(order, "value", Num(0)), Get(order, "amount", Num(0))),
       Get(order, "total", Num(0)))

\* `not customer_id or not product`: the record is skipped.
Skipped(order) == ~Truthy(CustomerOf(order)) \/ ~Truthy(ProductOf(order))

\* The exception one loop iteration of parse_orders raises, "" when none.
ParseRaises(order) ==
    IF Skipped(order) THEN ""
    ELSE IF ProductOf(order).t # "str" THEN "AttributeError"
    ELSE IF FloatRaises(QuantityOf(order)) # "" THEN FloatRaises(QuantityOf(order))
    ELSE FloatRaises(ValueOf(order))

\* The dict one loop iteration appends.
ParsedEntry(order) ==
    [date |-> DateOf(order),
     quantity |-> Float(QuantityOf(order)),
     value |-> Float(ValueOf(order))]

\* The loop of parse_orders over orders[lo..hi] begun in `state`, which is
\* [exc, grouped]: once an iteration has raised the loop is over.  The
\* iterations run in order, those of the first half of a range before those
\* of the second; a range of one order is one iteration.
RECURSIVE ParseFrom(_, _, _, _)
ParseFrom(orders, lo, hi, state) ==
    IF state.exc # "" \/ lo > hi THEN state
    ELSE IF lo < hi
         THEN ParseFrom(orders, (lo + hi) \div 2 + 1, hi,
                        ParseFrom(orders, lo, (lo + hi) \div 2, state))
    ELSE IF Skipped(orders[lo]) THEN state
    ELSE IF ParseRaises(orders[lo]) # ""
         THEN [exc |-> ParseRaises(orders[lo]), grouped |-> <<>>]
    ELSE [exc |-> "",
          grouped |-> GroupAppend(state.grouped, CustomerOf(orders[lo]),
                                  normalize_category(ProductOf(orders[lo]).v),
                                  ParsedEntry(orders[lo]))]

parse_orders(orders) ==
    ParseFrom(orders, 1, Len(orders), [exc |-> "", grouped |-> <<>>])

(***************************************************************************)
(* Dates.  datetime.fromisoformat(x.replace('Z', '+00:00')) on a stored    *)
(* date: an ISO string parses to its day number, any other string raises   *)
(* ValueError and a value that is no string has no .replace                *)
(* (AttributeError).                                                       *)
(***************************************************************************)
DateRaises(date) ==
    CASE date.t = "iso" -> ""
      [] date.t = "str" -> "ValueError"
      [] OTHER -> "AttributeError"

\* The sort keys x.get('date', '') compared as strings: ISO strings of one
\* format compare as their days do, and the unparseable string of the
\* inputs ("n/a") compares above every ISO string, as 'n' > '9'.
DateKeyGeq(a, b) ==
    \/ a.t = "str"
    \/ a.t = "iso" /\ b.t = "iso" /\ a.d >= b.d

\* list.sort and sorted are stable: seq in the order of its keys, leq[i, j]
\* saying that the key of seq[i] is at most the key of seq[j], elements of
\* equal keys in their original order.  The element at position p is the
\* one that p - 1 others precede.
StableSort(seq, leq) ==
    LET Precedes(i, j) == leq[i, j] /\ (i < j \/ ~leq[j, i])
        Position(i) == 1 + Cardinality({j \in 1..Len(seq) : j # i /\ Precedes(j, i)})
    IN  [p \in 1..Len(seq) |-> seq[CHOOSE i \in 1..Len(seq) : Position(i) = p]]

\* list.sort(key=..., reverse=True): descending, equal keys in their
\* original order.
SortByDateDesc(orders) ==
    StableSort(orders, [i, j \in 1..Len(orders) |->
                           DateKeyGeq(orders[i].date, orders[j].date)])

\* Comparing the keys of a list of two or more raises TypeError when one of
\* them is None.
SortRaises(orders) ==
    IF Len(orders) >= 2 /\ \E i \in 1..Len(orders) : orders[i].date.t = "none"
    THEN "TypeError"
    ELSE ""

RECURSIVE SumOf(_, _)
SumOf(orders, field) ==
    IF Len(orders) = 0 THEN 0
    ELSE orders[1][field] + SumOf(SubSeq(orders, 2, Len(orders)), field)

Max(a, b) == IF a >= b THEN a ELSE b
Min(a, b) == IF a <= b THEN a ELSE b

\* The first exception of the date loop over orders[i..] that is not caught.
RECURSIVE FirstRaise(_, _)
FirstRaise(orders, i) ==
    IF i > Len(orders) THEN ""
    ELSE IF DateRaises(orders[i].date) \in {"", "ValueError"}
         THEN FirstRaise(orders, i + 1)
         ELSE DateRaises(orders[i].date)

\* The exception the date loop of calculate_baseline or calculate_current
\* lets through: ValueError, TypeError and KeyError are caught, the
\* AttributeError of a date that is None is not.
DateLoopRaises(orders) == FirstRaise(orders, 1)

(***************************************************************************)
(* Rates are integers in units of 1/baseline_weeks = 1/8 per week.         *)
(***************************************************************************)
RateUnit == baseline_weeks

InBaselineWindow(order, reference_date) ==
    /\ order.date.t = "iso"
    /\ reference_date - lookback_weeks * DaysPerWeek <= order.date.d
    /\ order.date.d <= reference_date - (lookback_weeks - baseline_weeks) * DaysPerWeek

\* calculate_baseline falling back to the whole list whatever its length.
calculate_baseline_whole(orders, reference_date) ==
    LET in_window == SelectSeq(orders, LAMBDA o : InBaselineWindow(o, reference_date))
        baseline_orders == IF Len(in_window) = 0 THEN orders ELSE in_window
        weeks == Max(1, baseline_weeks)
    IN  [qty |-> (SumOf(baseline_orders, "quantity") * RateUnit) \div weeks,
         value |-> (SumOf(baseline_orders, "value") * RateUnit) \div weeks]

\* calculate_baseline(orders, reference_date) when it returns.
calculate_baseline(orders, reference_date) ==
    LET in_window == SelectSeq(orders, LAMBDA o : InBaselineWindow(o, reference_date))
        baseline_orders ==
            IF Len(in_window) = 0
            THEN IF Len(orders) > 4
                 THEN SubSeq(orders, 1, Len(orders) \div 2)
                 ELSE orders
            ELSE in_window
        weeks == Max(1, baseline_weeks)
    IN  [qty |-> (SumOf(baseline_orders, "quantity") * RateUnit) \div weeks,
         value |-> (SumOf(baseline_orders, "value") * RateUnit) \div weeks]

InRecentWindow(order, reference_date) ==
    /\ order.date.t = "iso"
    /\ order.date.d >= reference_date - recent_weeks * DaysPerWeek

\* The last_order_date loop of calculate_current over orders[i..].
RECURSIVE LastOrderFrom(_, _, _)
LastOrderFrom(orders, i, last_order_date) ==
    IF i > Len(orders) THEN last_order_date
    ELSE IF orders[i].date.t # "iso" THEN LastOrderFrom(orders, i + 1, last_order_date)
    ELSE IF last_order_date.t = "none" \/ orders[i].date.d > last_order_date.d
         THEN LastOrderFrom(orders, i + 1, orders[i].date)
         ELSE LastOrderFrom(orders, i + 1, last_order_date)

\* calculate_current(orders, reference_date) when it returns.
calculate_current(orders, reference_date) ==
    LET recent_orders == SelectSeq(orders, LAMBDA o : InRecentWindow(o, reference_date))
    IN  [qty |-> (SumOf(recent_orders, "quantity") * RateUnit) \div recent_weeks,
         value |-> (SumOf(recent_orders, "value") * RateUnit) \div recent_weeks,
         last_order_date |-> LastOrderFrom(orders, 1, None)]

(***************************************************************************)
(* detect_trend.  (num / den) * 100 compared with a percentage; for the    *)
(* dyadic rates of the model the floating-point comparison agrees with     *)
(* the exact one.                                                          *)
(***************************************************************************)
PctLeq(num, den, pct) ==
    IF den > 0 THEN num * 100 <= pct * den ELSE num * 100 >= pct * den

PctGeq(num, den, pct) ==
    IF den > 0 THEN num * 100 >= pct * den ELSE num * 100 <= pct * den

\* weeks_since >= stopped_weeks, with weeks_since = (reference - last).days / 7
Inactive(last_order_date, reference_date) ==
    /\ Truthy(last_order_date)
    /\ last_order_date.t = "iso"
    /\ reference_date - last_order_date.d >= stopped_weeks * DaysPerWeek

\* The relative-rate rules with 'declining' from a drop of 20% on.
TrendByRateEarlyDecline(baseline_qty, current_qty) ==
    IF baseline_qty = 0
    THEN IF current_qty = 0 THEN "stable" ELSE "growing"
    ELSE LET change == current_qty - baseline_qty
         IN  IF PctLeq(change, baseline_qty, -critical_decline_pct) THEN "stopped"
             ELSE IF PctLeq(change, baseline_qty, -20) THEN "declining"
             ELSE IF PctGeq(change, baseline_qty, growth_pct) THEN "growing"
             ELSE "stable"

\* The relative-rate rules of detect_trend, lines 196-208.
TrendByRate(baseline_qty, current_qty) ==
    IF baseline_qty = 0
    THEN IF current_qty = 0 THEN "stable" ELSE "growing"
    ELSE LET change == current_qty - baseline_qty
         IN  IF PctLeq(change, baseline_qty, -critical_decline_pct) THEN "stopped"
             ELSE IF PctLeq(change, baseline_qty, -decline_pct) THEN "declining"
             ELSE IF PctGeq(change, baseline_qty, growth_pct) THEN "growing"
             ELSE "stable"

\* detect_trend with the inactivity test strict (weeks_since > stopped_weeks).
detect_trend_strict(baseline_qty, current_qty, last_order_date, reference_date) ==
    IF /\ Truthy(last_order_date)
       /\ last_order_date.t = "iso"
       /\ reference_date - last_order_date.d > stopped_weeks * DaysPerWeek
    THEN "stopped"
    ELSE TrendByRate(baseline_qty, current_qty)

\* detect_trend with the decline thresholds strict (change_pct < -threshold).
detect_trend_open(baseline_qty, current_qty, last_order_date, reference_date) ==
    IF Inactive(last_order_date, reference_date) THEN "stopped"
    ELSE IF baseline_qty = 0
    THEN IF current_qty = 0 THEN "stable" ELSE "growing"
    ELSE LET change == current_qty - baseline_qty
         IN  IF ~PctGeq(change, baseline_qty, -critical_decline_pct) THEN "stopped"
             ELSE IF ~PctGeq(change, baseline_qty, -decline_pct) THEN "declining"
             ELSE IF PctGeq(change, baseline_qty, growth_pct) THEN "growing"
             ELSE "stable"

detect_trend(baseline_qty, current_qty, last_order_date, reference_date) ==
    IF Inactive(last_order_date, reference_date) THEN "stopped"
    ELSE TrendByRate(baseline_qty, current_qty)

(***************************************************************************)
(* ProductLevelChurnEngine.analyze.                                        *)
(***************************************************************************)
\* A dict with the keys of a and of b, a's values first.
Merge(a, b) ==
    [k \in DOMAIN a \cup DOMAIN b |-> IF k \in DOMAIN a THEN a[k] ELSE b[k]]

\* round(num / den, 0) for den > 0: Python rounds an exact tie to the even
\* neighbour.
RoundHalfEven(num, den) ==
    LET q == num \div den
        r == num % den
    IN  IF 2 * r < den THEN q
        ELSE IF 2 * r > den THEN q + 1
        ELSE IF q % 2 = 0 THEN q ELSE q + 1

\* round(rate, 2) of a rate in units of 1/8, in hundredths.
Round2(rate) == RoundHalfEven(rate * 100, RateUnit)

\* int(x / y) for y > 0: truncation towards zero.
IntDiv(x, y) == IF x >= 0 THEN x \div y ELSE -((-x) \div y)

\* Alerts for stopped pairs only.
AlertTrendsStoppedOnly == {"stopped"}

\* The trends that produce an alert, line 298.
AlertTrends == {"stopped", "declining"}

\* The severity with the thresholds strict (drop_pct > threshold).
SeverityStrict(trend, baseline_qty, current_qty) ==
    LET has_drop == baseline_qty > 0
        drop == baseline_qty - current_qty
    IN  IF trend = "stopped"
           \/ (has_drop /\ ~PctLeq(drop, baseline_qty, critical_decline_pct))
        THEN "critical"
        ELSE IF has_drop /\ ~PctLeq(drop, baseline_qty, decline_pct)
        THEN "warning"
        ELSE "watch"

\* The severity of an alert, lines 299-317.
Severity(trend, baseline_qty, current_qty) ==
    LET has_drop == baseline_qty > 0
        drop == baseline_qty - current_qty
    IN  IF trend = "stopped"
           \/ (IF has_drop THEN PctGeq(drop, baseline_qty, critical_decline_pct)
               ELSE 0 >= critical_decline_pct)
        THEN "critical"
        ELSE IF (IF has_drop THEN PctGeq(drop, baseline_qty, decline_pct)
                 ELSE 0 >= decline_pct)
        THEN "warning"
        ELSE "watch"

\* weeks_since of an alert, lines 303-309.
WeeksSince(last_order, reference_date) ==
    IF Truthy(last_order) /\ last_order.t = "iso"
    THEN IntDiv(reference_date - last_order.d, DaysPerWeek)
    ELSE 0

\* round(drop_pct, 1) in tenths of a percent, lines 299-301 and 329; the
\* rates are exact here, the code rounds the nearest double.
DropPercentage(baseline_qty, current_qty) ==
    IF baseline_qty > 0
    THEN RoundHalfEven((baseline_qty - current_qty) * 1000, baseline_qty)
    ELSE 0

\* detect_competitor_signal with the comparison not strict
\* (current <= 0.3 * baseline).
detect_competitor_signal_loose(profile) ==
    /\ profile.trend \in {"stopped", "declining"}
    /\ profile.baseline_weekly_qty > 0
    /\ profile.current_weekly_qty * 10 <= profile.baseline_weekly_qty * 3

\* detect_competitor_signal(profile), lines 233-242: current < baseline * 0.3
detect_competitor_signal(profile) ==
    /\ profile.trend \in {"stopped", "declining"}
    /\ profile.baseline_weekly_qty > 0
    /\ profile.current_weekly_qty * 10 < profile.baseline_weekly_qty * 3

\* Discounts are kept in units of 1/200 of a percent point: drop_pct / 10 and
\* drop_pct / 20 of a drop given in tenths are whole numbers of them.
DiscountUnit == 200

\* A recommendation that takes every alert for a warning.
generate_recommendation_as_warning(alert) ==
    LET discount == Min(15 * DiscountUnit, 5 * DiscountUnit + alert.drop_percentage)
    IN  [discount |-> discount,
         action |-> [template |-> "Schedule call", category |-> alert.category,
                     discount |-> RoundHalfEven(discount, DiscountUnit)]]

\* generate_recommendation(alert), lines 210-231: the discount and the action
\* (its template and the discount it prints with {discount:.0f}).
generate_recommendation(alert) ==
    LET drop_pct == alert.drop_percentage
        discount ==
            IF alert.severity = "critical"
            THEN Min(25 * DiscountUnit, 10 * DiscountUnit + 2 * drop_pct)
            ELSE IF alert.severity = "warning"
            THEN Min(15 * DiscountUnit, 5 * DiscountUnit + drop_pct)
            ELSE 5 * DiscountUnit
        template ==
            IF alert.severity = "critical" THEN "URGENT"
            ELSE IF alert.severity = "warning" THEN "Schedule call"
            ELSE "Monitor closely"
    IN  [discount |-> discount,
         action |-> [template |-> template,
                     category |-> alert.category,
                     discount |-> IF alert.severity \in {"critical", "warning"}
                                  THEN RoundHalfEven(discount, DiscountUnit)
                                  ELSE 0]]

\* cat_orders[-20:]
LastOrders(cat_orders) ==
    SubSeq(cat_orders, Max(1, Len(cat_orders) - history_len + 1), Len(cat_orders))

\* One iteration of the inner loop of analyze, lines 272-339:
\* [exc, profile, alerts], alerts holding the alert appended, if any.
AnalyzePair(entry, reference_date) ==
    IF SortRaises(entry.orders) # ""
    THEN [exc |-> SortRaises(entry.orders)]
    ELSE IF DateLoopRaises(entry.orders) # ""
    THEN [exc |-> DateLoopRaises(entry.orders)]
    ELSE
    LET cat_orders == SortByDateDesc(entry.orders)
        baseline == calculate_baseline(cat_orders, reference_date)
        current == calculate_current(cat_orders, reference_date)
        trend == detect_trend(baseline.qty, current.qty,
                              current.last_order_date, reference_date)
        profile == [customer_id |-> entry.customer_id,
                    category |-> entry.category,
                    order_history |-> LastOrders(cat_orders),
                    baseline_weekly_qty |-> baseline.qty,
                    baseline_weekly_value |-> baseline.value,
                    current_weekly_qty |-> current.qty,
                    current_weekly_value |-> current.value,
                    last_order_date |-> current.last_order_date,
                    trend |-> trend]
        alert_dict ==
                 [customer_id |-> entry.customer_id,
                  category |-> entry.category,
                  signal_type |-> trend,
                  severity |-> Severity(trend, baseline.qty, current.qty),
                  baseline_quantity |-> Round2(baseline.qty),
                  current_quantity |-> Round2(current.qty),
                  drop_percentage |-> DropPercentage(baseline.qty, current.qty),
                  weeks_since_last_order |->
                      WeeksSince(current.last_order_date, reference_date),
                  estimated_lost_revenue |->
                      Round2((baseline.value - current.value) * 4),
                  competitor_likely |-> detect_competitor_signal(profile)]
        recommendation == generate_recommendation(alert_dict)
        alert == Merge(alert_dict,
                       [recommended_discount |-> recommendation.discount,
                        recommended_action |-> recommendation.action])
    IN  [exc |-> "", profile |-> profile,
         alerts |-> IF trend \in AlertTrends THEN <<alert>> ELSE <<>>]

\* severity_order, line 342.
SeverityRank(severity) ==
    CASE severity = "critical" -> 0
      [] severity = "warning" -> 1
      [] severity = "watch" -> 2

\* The sort key without the lost revenue: severity_order[a.severity] only.
AlertKeyLeqBySeverity(a, b) ==
    SeverityRank(a.severity) <= SeverityRank(b.severity)

\* (severity_order[a.severity], -a.estimated_lost_revenue) <= the key of b
AlertKeyLeq(a, b) ==
    \/ SeverityRank(a.severity) < SeverityRank(b.severity)
    \/ /\ SeverityRank(a.severity) = SeverityRank(b.severity)
       /\ -a.estimated_lost_revenue <= -b.estimated_lost_revenue

\* alerts.sort(key=...): ascending, equal keys in their original order.
SortAlerts(alerts) ==
    StableSort(alerts, [i, j \in 1..Len(alerts) |-> AlertKeyLeq(alerts[i], alerts[j])])

CountSeverity(alerts, severity) ==
    Cardinality({i \in 1..Len(alerts) : alerts[i].severity = severity})

\* The summary of the report, lines 346-356.
Summary(grouped, alerts) ==
    [total_customers |-> Cardinality({grouped[i].customer_id : i \in 1..Len(grouped)}),
     customers_with_alerts |-> Cardinality({alerts[i].customer_id : i \in 1..Len(alerts)}),
     total_alerts |-> Len(alerts),
     critical_alerts |-> CountSeverity(alerts, "critical"),
     warning_alerts |-> CountSeverity(alerts, "warning"),
     watch_alerts |-> CountSeverity(alerts, "watch"),
     total_estimated_monthly_loss |-> SumOf(alerts, "estimated_lost_revenue"),
     categories_at_risk |-> {alerts[i].category : i \in 1..Len(alerts)},
     competitor_signals |->
         Cardinality({i \in 1..Len(alerts) : alerts[i].competitor_likely})]

\* The number of alerts that get a recommendation, line 360.
top_recommendations == 10

\* The recommendations of the report, lines 359-368.
Recommendations(alerts) ==
    [k \in 1..Min(top_recommendations, Len(alerts)) |->
        [priority |-> k,
         customer_id |-> alerts[k].customer_id,
         category |-> alerts[k].category,
         action |-> alerts[k].recommended_action,
         discount |-> alerts[k].recommended_discount,
         potential_save |-> alerts[k].estimated_lost_revenue]]

\* The loops of analyze with every pair computed from the order list of the
\* first pair.
RECURSIVE AnalyzeFromFirstOrders(_, _, _, _, _)
AnalyzeFromFirstOrders(grouped, lo, hi, reference_date, state) ==
    IF state.exc # "" \/ lo > hi THEN state
    ELSE IF lo < hi
         THEN AnalyzeFromFirstOrders(grouped, (lo + hi) \div 2 + 1, hi, reference_date,
                  AnalyzeFromFirstOrders(grouped, lo, (lo + hi) \div 2,
                                         reference_date, state))
    ELSE LET pair == AnalyzePair([grouped[lo] EXCEPT !.orders = grouped[1].orders],
                                 reference_date)
         IN  IF pair.exc # "" THEN [exc |-> pair.exc]
             ELSE [exc |-> "",
                   profiles |-> Append(state.profiles, pair.profile),
                   alerts |-> state.alerts \o pair.alerts]

\* The loops of analyze, lines 269-339, over grouped[lo..hi] begun in
\* `state`, which is [exc, profiles, alerts]: once an iteration has raised
\* the loops are over.  The iterations run in order, those of the first half
\* of a range before those of the second.
RECURSIVE AnalyzeFrom(_, _, _, _, _)
AnalyzeFrom(grouped, lo, hi, reference_date, state) ==
    IF state.exc # "" \/ lo > hi THEN state
    ELSE IF lo < hi
         THEN AnalyzeFrom(grouped, (lo + hi) \div 2 + 1, hi, reference_date,
                          AnalyzeFrom(grouped, lo, (lo + hi) \div 2,
                                      reference_date, state))
    ELSE LET pair == AnalyzePair(grouped[lo], reference_date)
         IN  IF pair.exc # "" THEN [exc |-> pair.exc]
             ELSE [exc |-> "",
                   profiles |-> Append(state.profiles, pair.profile),
                   alerts |-> state.alerts \o pair.alerts]

\* analyze(orders, reference_date): [exc] when it raises, else the report.
analyze(orders, reference_date) ==
    LET parsed == parse_orders(orders)
    IN  IF parsed.exc # "" THEN [exc |-> parsed.exc]
        ELSE LET done == AnalyzeFrom(parsed.grouped, 1, Len(parsed.grouped),
                                     reference_date.d,
                                     [exc |-> "", profiles |-> <<>>, alerts |-> <<>>])
             IN  IF done.exc # "" THEN [exc |-> done.exc]
                 ELSE LET alerts == SortAlerts(done.alerts)
                      IN  [exc |-> "",
                           alerts |-> alerts,
                           customer_profiles |-> done.profiles,
                           summary |-> Summary(parsed.grouped, alerts),
                           recommendations |-> Recommendations(alerts)]

(***************************************************************************)
(* CompetitorIntelligenceEngine.analyze, its grouping loop (lines 327-340).*)
(***************************************************************************)
competitor_categories == <<"chicken", "drinks", "cheese", "dips", "produce">>

\* The normalisation loop of lines 334-337 from the i-th name on.
RECURSIVE CompetitorCategoryFrom(_, _)
CompetitorCategoryFrom(i, category) ==
    IF i > Len(competitor_categories) THEN category
    ELSE IF In(competitor_categories[i], category) THEN competitor_categories[i]
    ELSE CompetitorCategoryFrom(i + 1, category)

\* order.get('customer_id') or order.get('customer')
CompetitorCustomerOf(order) ==
    Or(Get(order, "customer_id", None), Get(order, "customer", None))

\* order.get('product') or order.get('category', '')
CompetitorLabelOf(order) ==
    Or(Get(order, "product", None), Get(order, "category", Str("")))

\* The grouping loop over orders[lo..hi] begun in `state`, which is
\* [exc, grouped]; the lists hold the raw orders.  Once an iteration has
\* raised the loop is over; the iterations run in order, those of the first
\* half of a range before those of the second.
RECURSIVE CompetitorGroupFrom(_, _, _, _)
CompetitorGroupFrom(orders, lo, hi, state) ==
    IF state.exc # "" \/ lo > hi THEN state
    ELSE IF lo < hi
         THEN CompetitorGroupFrom(orders, (lo + hi) \div 2 + 1, hi,
                  CompetitorGroupFrom(orders, lo, (lo + hi) \div 2, state))
    ELSE IF CompetitorLabelOf(orders[lo]).t # "str"
         THEN [exc |-> "AttributeError", grouped |-> <<>>]
    ELSE LET customer_id == CompetitorCustomerOf(orders[lo])
             category == CompetitorCategoryFrom(1, Lower(CompetitorLabelOf(orders[lo]).v))
         IN  IF Truthy(customer_id) /\ category # ""
             THEN [exc |-> "",
                   grouped |-> GroupAppend(state.grouped, customer_id, category,
                                           orders[lo])]
             ELSE state

competitor_group(orders) ==
    CompetitorGroupFrom(orders, 1, Len(orders), [exc |-> "", grouped |-> <<>>])

(***************************************************************************)
(* CompetitorIntelligenceEngine: pattern detection.  The engine works on   *)
(* the raw orders; quantities and values are numbers, and the ratios the   *)
(* code computes in floating point are kept exact, as [num, den] with      *)
(* den > 0.                                                                *)
(***************************************************************************)
Rat(num, den) == [num |-> num, den |-> den]

\* o.get('quantity', 0), o.get('value', 0)
RawQuantity(order) == Get(order, "quantity", Num(0)).v
RawValue(order) == Get(order, "value", Num(0)).v

RECURSIVE RawSum(_, _)
RawSum(orders, field) ==
    IF Len(orders) = 0 THEN 0
    ELSE Get(orders[1], field, Num(0)).v + RawSum(SubSeq(orders, 2, Len(orders)), field)

\* x.get('date', '')
RawDateKey(order) == Get(order, "date", Str(""))

\* key a <= key b for the string keys of the sort.
DateKeyLeq(a, b) ==
    \/ a = Str("")
    \/ b # Str("") /\ DateKeyGeq(b, a)

\* sorted(orders, key=lambda x: x.get('date', '')): ascending, equal keys in
\* their original order.
SortByDateAsc(orders) ==
    StableSort(orders, [i, j \in 1..Len(orders) |->
                           DateKeyLeq(RawDateKey(orders[i]), RawDateKey(orders[j]))])

\* Lines 127-129: early_qty > 0 and recent_qty > 0 and
\* -0.7 < (recent_qty - early_qty) / early_qty < -0.3
VolumeSplit(early_qty, recent_qty) ==
    /\ early_qty > 0
    /\ recent_qty > 0
    /\ 10 * (recent_qty - early_qty) > -7 * early_qty
    /\ 10 * (recent_qty - early_qty) < -3 * early_qty

\* Line 137.
CompleteLoss(early_orders, early_qty, recent_qty) ==
    early_qty > 0 /\ recent_qty = 0 /\ Len(early_orders) >= 3

\* The frequency test on the bare counts: no more recent orders than early
\* ones.
FrequencyDropByCount(early_orders, recent_orders) ==
    /\ Len(early_orders) >= 2
    /\ Len(recent_orders) >= 1
    /\ Len(recent_orders) <= Len(early_orders)

\* Lines 145-148: recent_freq < early_freq * 0.5 with recent_freq twice the
\* number of recent orders.
FrequencyDrop(early_orders, recent_orders) ==
    /\ Len(early_orders) >= 2
    /\ Len(recent_orders) >= 1
    /\ 2 * (Len(recent_orders) * 2) < Len(early_orders)

\* The price test without the guard on the recent average price: a recent
\* half without quantity has the average price 0, a change of -100%.
PromoOnlyUnguarded(early_qty, recent_qty, early_value, recent_value) ==
    /\ early_qty > 0 /\ early_value > 0
    /\ \/ recent_qty <= 0
       \/ 10 * recent_value * early_qty < 9 * early_value * recent_qty

\* Lines 123-124 and 156-158: both average prices positive and
\* (recent - early) / early < -0.1, the averages being value / quantity.
PromoOnly(early_qty, recent_qty, early_value, recent_value) ==
    /\ early_qty > 0 /\ early_value > 0
    /\ recent_qty > 0 /\ recent_value > 0
    /\ 10 * recent_value * early_qty < 9 * early_value * recent_qty

\* The signal of one pattern: no signal when it is not detected.
SignalIf(detected, type, strength, description) ==
    IF detected
    THEN <<[type |-> type, strength |-> strength, description |-> description]>>
    ELSE <<>>

\* analyze_order_patterns(orders, category), lines 101-172.
analyze_order_patterns(orders, category) ==
    IF Len(orders) = 0 THEN [pattern |-> "no_data", signals |-> <<>>]
    ELSE
    LET sorted_orders == SortByDateAsc(orders)
        mid_point == Len(sorted_orders) \div 2
        early_orders == IF mid_point > 0 THEN SubSeq(sorted_orders, 1, mid_point)
                        ELSE sorted_orders
        recent_orders == IF mid_point > 0
                         THEN SubSeq(sorted_orders, mid_point + 1, Len(sorted_orders))
                         ELSE <<>>
        early_qty == RawSum(early_orders, "quantity")
        recent_qty == RawSum(recent_orders, "quantity")
        early_value == RawSum(early_orders, "value")
        recent_value == RawSum(recent_orders, "value")
        drop == early_qty - recent_qty
    IN  [early_qty |-> early_qty,
         recent_qty |-> recent_qty,
         early_value |-> early_value,
         recent_value |-> recent_value,
         volume_change_pct |-> IF early_qty > 0
                               THEN Rat((recent_qty - early_qty) * 100, early_qty)
                               ELSE Rat(0, 1),
         signals |->
             SignalIf(VolumeSplit(early_qty, recent_qty), "volume_split",
                      IF 100 * drop <= 80 * early_qty
                      THEN Rat(100 * drop, early_qty) ELSE Rat(80, 1),
                      [text |-> "Volume dropped but still ordering",
                       pct |-> RoundHalfEven(100 * drop, Max(1, early_qty))])
             \o SignalIf(CompleteLoss(early_orders, early_qty, recent_qty),
                         "complete_loss", Rat(95, 1),
                         [text |-> "Complete stop after consistent ordering history"])
             \o SignalIf(FrequencyDrop(early_orders, recent_orders),
                         "frequency_drop", Rat(70, 1),
                         [text |-> "Order frequency dropped significantly"])
             \o SignalIf(PromoOnly(early_qty, recent_qty, early_value, recent_value),
                         "promo_only", Rat(60, 1),
                         [text |-> "Now only ordering during promotions or cheaper variants"])]

\* The archetypes with 'complete_loss' among the indicators of
\* direct_manufacturer, in place of 'complete_stop'.
competitor_patterns_loss_indicator ==
    << [type |-> "cash_and_carry",
        indicators |-> <<"bulk_increase", "frequency_drop", "value_items_gone">>,
        typical_advantage |-> 15,
        categories |-> {"drinks", "frozen", "dry_goods", "cleaning"}],
       [type |-> "wholesaler",
        indicators |-> <<"volume_drop", "premium_items_kept", "basics_gone">>,
        typical_advantage |-> 10,
        categories |-> {"chicken", "meat", "produce", "dairy"}],
       [type |-> "direct_manufacturer",
        indicators |-> <<"single_category_loss", "complete_loss", "high_volume_history">>,
        typical_advantage |-> 20,
        categories |-> {"drinks", "branded_goods", "packaging"}],
       [type |-> "online",
        indicators |-> <<"gradual_decline", "small_items_first", "non_urgent_items">>,
        typical_advantage |-> 12,
        categories |-> {"consumables", "packaging", "disposables"}] >>

\* competitor_patterns, lines 56-77, in declaration order.
competitor_patterns ==
    << [type |-> "cash_and_carry",
        indicators |-> <<"bulk_increase", "frequency_drop", "value_items_gone">>,
        typical_advantage |-> 15,
        categories |-> {"drinks", "frozen", "dry_goods", "cleaning"}],
       [type |-> "wholesaler",
        indicators |-> <<"volume_drop", "premium_items_kept", "basics_gone">>,
        typical_advantage |-> 10,
        categories |-> {"chicken", "meat", "produce", "dairy"}],
       [type |-> "direct_manufacturer",
        indicators |-> <<"single_category_loss", "complete_stop", "high_volume_history">>,
        typical_advantage |-> 20,
        categories |-> {"drinks", "branded_goods", "packaging"}],
       [type |-> "online",
        indicators |-> <<"gradual_decline", "small_items_first", "non_urgent_items">>,
        typical_advantage |-> 12,
        categories |-> {"consumables", "packaging", "disposables"}] >>

\* The score of one competitor type, lines 184-193.
CompetitorScore(comp_info, category, signals) ==
    (IF category \in comp_info.categories THEN 30 ELSE 0)
    + 25 * Cardinality({k \in 1..Len(comp_info.indicators) :
                           \E j \in 1..Len(signals) :
                               In(comp_info.indicators[k], signals[j].type)})

\* The loop of infer_competitor_type from the i-th type on, lines 183-198.
RECURSIVE InferFrom(_, _, _, _, _)
InferFrom(i, category, signals, best_score, best) ==
    IF i > Len(competitor_patterns) THEN best
    ELSE LET score == CompetitorScore(competitor_patterns[i], category, signals)
         IN  IF score > best_score
             THEN InferFrom(i + 1, category, signals, score,
                            [type |-> competitor_patterns[i].type,
                             price_advantage |->
                                 competitor_patterns[i].typical_advantage])
             ELSE InferFrom(i + 1, category, signals, best_score, best)

\* The inference with equal top scores going to the last declared type.
infer_competitor_type_last_declared(category, signals) ==
    LET score(i) == CompetitorScore(competitor_patterns[i], category, signals)
        types == 1..Len(competitor_patterns)
        last == CHOOSE i \in types :
                    /\ \A j \in types : score(j) <= score(i)
                    /\ \A j \in types : j > i => score(j) < score(i)
    IN  IF score(last) = 0 THEN [type |-> "unknown", price_advantage |-> 10]
        ELSE [type |-> competitor_patterns[last].type,
              price_advantage |-> competitor_patterns[last].typical_advantage]

\* infer_competitor_type(category, signals), lines 174-200.
infer_competitor_type(category, signals) ==
    InferFrom(1, category, signals, 0, [type |-> "unknown", price_advantage |-> 10])

(***************************************************************************)
(* CompetitorIntelligenceEngine: price sensitivity.  The correlation is a  *)
(* square root; the model keeps its sign and its exact square, and rounds  *)
(* the root where the code rounds the float.                               *)
(***************************************************************************)
RECURSIVE GCD(_, _)
GCD(a, b) == IF b = 0 THEN a ELSE GCD(b, a % b)

\* num / den in lowest terms (num >= 0, den > 0).
Reduced(num, den) == Rat(num \div GCD(num, den), den \div GCD(num, den))

\* a / b <= c / d for a, c >= 0 and b, d > 0, by their whole parts and then
\* the reciprocals of their fractional parts, so that no product is formed.
RECURSIVE RatLeq(_, _, _, _)
RatLeq(a, b, c, d) ==
    IF a \div b # c \div d THEN a \div b < c \div d
    ELSE IF a % b = 0 THEN TRUE
    ELSE IF c % d = 0 THEN FALSE
    ELSE RatLeq(d, c % d, b, a % b)

\* The greatest k of low..high with k - 1/2 <= sqrt(scale * square), by
\* bisection; square is [num, den].
RECURSIVE RootBetween(_, _, _, _)
RootBetween(scale, square, low, high) ==
    IF low = high THEN low
    ELSE LET mid == (low + high + 1) \div 2
         IN  IF RatLeq((2 * mid - 1) * (2 * mid - 1), 4 * scale,
                       square.num, square.den)
             THEN RootBetween(scale, square, mid, high)
             ELSE RootBetween(scale, square, low, mid - 1)

\* round(sqrt(scale * square)): the nearest integer to the root, at most
\* limit.
RoundedRoot(scale, square, limit) == RootBetween(scale, square, 0, limit)

RECURSIVE Product(_)
Product(numbers) ==
    IF Len(numbers) = 0 THEN 1
    ELSE numbers[1] * Product(SubSeq(numbers, 2, Len(numbers)))

RECURSIVE Sum(_)
Sum(numbers) ==
    IF Len(numbers) = 0 THEN 0
    ELSE numbers[1] + Sum(SubSeq(numbers, 2, Len(numbers)))

\* [x[i] - x[i-1] for i in range(1, len(x))]
Changes(x) == [i \in 1..(Len(x) - 1) |-> x[i + 1] - x[i]]

Abs(n) == IF n < 0 THEN -n ELSE n

\* The numbers divided by their greatest common divisor (all 0: unchanged).
RECURSIVE GCDOf(_)
GCDOf(numbers) ==
    IF Len(numbers) = 0 THEN 0
    ELSE GCD(Abs(numbers[1]), GCDOf(SubSeq(numbers, 2, Len(numbers))))

Primitive(numbers) ==
    IF GCDOf(numbers) = 0 THEN numbers
    ELSE [i \in 1..Len(numbers) |-> numbers[i] \div GCDOf(numbers)]

\* num / den (den > 0) is a binary fraction, which a float holds exactly.
RECURSIVE Dyadic(_, _)
Dyadic(num, den) ==
    IF den % 2 = 0 THEN Dyadic(num, den \div 2) ELSE num % den = 0

\* _correlation(x, y), lines 266-282, for len(x) >= 2 and len(y) >= len(x):
\* its sign and its square.  As in the code the means divide by n = len(x),
\* the numerator runs over the first n terms and denom_y over all of y.
\* The deviations are taken n-fold and freed of their common divisor, which
\* leaves the quotient unchanged.  A numerator whose terms cancel exactly
\* comes out of the floating-point sum as 0 or as a rounding error;
\* negative_error says that it is a negative rounding error, which makes the
\* correlation negative and of magnitude 0 at the precision kept.
Correlation(x, y, negative_error) ==
    LET n == Len(x)
        dev_x == Primitive([i \in 1..Len(x) |-> n * x[i] - Sum(x)])
        dev_y == Primitive([j \in 1..Len(y) |-> n * y[j] - Sum(y)])
        numerator == Sum([i \in 1..n |-> dev_x[i] * dev_y[i]])
        denom_x_sq == Sum([i \in 1..Len(x) |-> dev_x[i] * dev_x[i]])
        denom_y_sq == Sum([j \in 1..Len(y) |-> dev_y[j] * dev_y[j]])
    IN  IF denom_x_sq = 0 \/ denom_y_sq = 0
        THEN [sign |-> 0, square |-> Rat(0, 1)]
        ELSE IF numerator = 0
        THEN [sign |-> IF negative_error THEN -1 ELSE 0, square |-> Rat(0, 1)]
        ELSE [sign |-> IF numerator < 0 THEN -1 ELSE 1,
              square |-> Reduced(numerator * numerator, denom_x_sq * denom_y_sq)]

\* The square of the elasticity, lines 219-237.  The prices value / quantity
\* of the orders with a positive quantity are brought to the common
\* denominator of the product of these quantities, which leaves the
\* correlation unchanged.  The floating-point sums are exact when the prices
\* and the two means are binary fractions; otherwise negative_error says
\* which way the rounding error of a cancelling numerator falls.
ElasticitySquare(orders, negative_error) ==
    LET priced == SelectSeq(orders, LAMBDA o : RawQuantity(o) > 0)
        common == Product([i \in 1..Len(priced) |-> RawQuantity(priced[i])])
        prices == [i \in 1..Len(priced) |->
                      RawValue(priced[i]) * (common \div RawQuantity(priced[i]))]
        quantities == [i \in 1..Len(orders) |-> RawQuantity(orders[i])]
        exact == /\ \A i \in 1..Len(prices) : Dyadic(prices[i], common)
                 /\ Dyadic(Sum(Changes(prices)), common * Len(Changes(prices)))
                 /\ Dyadic(Sum(Changes(quantities)), Len(Changes(prices)))
    IN  IF Len(prices) < 2 \/ Cardinality({prices[i] : i \in 1..Len(prices)}) < 2
        THEN Rat(1, 1)
        ELSE IF Len(Changes(prices)) > 1
        THEN LET correlation == Correlation(Changes(prices), Changes(quantities),
                                            negative_error /\ ~exact)
             IN  IF correlation.sign < 0
                 THEN Rat(4 * correlation.square.num, correlation.square.den)
                 ELSE Rat(1, 4)
        ELSE Rat(1, 1)

\* min(100, max(0, elasticity * 50)) > bound, on the square of the elasticity.
ScoreAbove(elasticity_sq, bound) ==
    /\ 100 > bound
    /\ ~RatLeq(elasticity_sq.num, elasticity_sq.den, bound * bound, 2500)

\* round(sensitivity_score, 1) in tenths: the score is 50 times the
\* elasticity, which is never negative, capped at 100.
RoundedScore(elasticity_sq) ==
    IF elasticity_sq.num >= 4 * elasticity_sq.den THEN 1000
    ELSE RoundedRoot(2500 * 100, elasticity_sq, 1000)

\* orders[0].get('customer_id', 'unknown')
FirstCustomerId(orders) ==
    IF Len(orders) = 0 THEN Str("unknown")
    ELSE Get(orders[1], "customer_id", Str("unknown"))

\* Lines 243-254.
SensitivityBand(elasticity_sq) ==
    IF ScoreAbove(elasticity_sq, 70)
    THEN [response |-> "highly_sensitive", acceptable_premium |-> 5,
          optimal_range |-> <<10, 20>>]
    ELSE IF ScoreAbove(elasticity_sq, 40)
    THEN [response |-> "moderately_sensitive", acceptable_premium |-> 10,
          optimal_range |-> <<5, 15>>]
    ELSE [response |-> "low_sensitivity", acceptable_premium |-> 20,
          optimal_range |-> <<0, 10>>]

\* The profile of the general path, lines 216-264.
ComputedSensitivity(orders, category, negative_error) ==
    LET elasticity_sq == ElasticitySquare(orders, negative_error)
        band == SensitivityBand(elasticity_sq)
    IN  [customer_id |-> FirstCustomerId(orders),
         category |-> category,
         sensitivity_score |-> RoundedScore(elasticity_sq),
         price_elasticity |->
             RoundedRoot(10000, elasticity_sq, 200),
         acceptable_premium |-> band.acceptable_premium,
         historical_price_response |-> band.response,
         optimal_discount_range |-> band.optimal_range]

\* The neutral default profile, lines 206-214.
DefaultSensitivity(orders, category) ==
    [customer_id |-> FirstCustomerId(orders),
     category |-> category,
     sensitivity_score |-> 500,
     price_elasticity |-> 100,
     acceptable_premium |-> 10,
     historical_price_response |-> "neutral",
     optimal_discount_range |-> <<5, 15>>]

\* calculate_price_sensitivity short-circuiting for the empty list only
\* (`if not orders:`).
calculate_price_sensitivity_empty_only(orders, category, negative_error) ==
    IF Len(orders) = 0 THEN DefaultSensitivity(orders, category)
    ELSE ComputedSensitivity(orders, category, negative_error)

\* calculate_price_sensitivity(orders, category), lines 202-264: the score in
\* tenths, the elasticity in hundredths; negative_error is the way the
\* rounding error of the correlation falls.
calculate_price_sensitivity(orders, category, negative_error) ==
    IF Len(orders) = 0 \/ Len(orders) < 2
    THEN DefaultSensitivity(orders, category)
    ELSE ComputedSensitivity(orders, category, negative_error)

(***************************************************************************)
(* CompetitorIntelligenceEngine: win-back probability and analyze.         *)
(***************************************************************************)
\* calculate_win_back_probability without the lower clamp (min(0.9, p)).
calculate_win_back_probability_no_floor(signal_strength, weeks_since_loss, sensitivity_score, competitor_advantage) ==
    LET d == signal_strength.den
        base_prob == 7000 * d - 30 * signal_strength.num
                     - d * Min(3000, weeks_since_loss * 300)
                     + d * (IF sensitivity_score > 600 THEN 1500
                            ELSE IF sensitivity_score > 400 THEN 800 ELSE 0)
                     - d * competitor_advantage * 20
    IN  Rat(Min(9000 * d, base_prob), 10000 * d)

\* calculate_win_back_probability(signal_strength, weeks_since_loss,
\* sensitivity_score, competitor_advantage), lines 284-314, in ten-thousandths
\* of the strength's denominator: the strength is [num, den], the score is
\* in tenths.
calculate_win_back_probability(signal_strength, weeks_since_loss, sensitivity_score, competitor_advantage) ==
    LET d == signal_strength.den
        base_prob == 7000 * d - 30 * signal_strength.num
                     - d * Min(3000, weeks_since_loss * 300)
                     + d * (IF sensitivity_score > 600 THEN 1500
                            ELSE IF sensitivity_score > 400 THEN 800 ELSE 0)
                     - d * competitor_advantage * 20
    IN  Rat(Max(1000 * d, Min(9000 * d, base_prob)), 10000 * d)

\* statistics.mean of the strengths of the signals.
MeanStrength(signals) ==
    LET common == Product([i \in 1..Len(signals) |-> signals[i].strength.den])
        total == Sum([i \in 1..Len(signals) |->
                         signals[i].strength.num * (common \div signals[i].strength.den)])
    IN  Rat(total, common * Len(signals))

\* max(o.get('date', '') for o in cat_orders)
RECURSIVE MaxDateKey(_)
MaxDateKey(orders) ==
    IF Len(orders) = 1 THEN RawDateKey(orders[1])
    ELSE LET rest == MaxDateKey(SubSeq(orders, 2, Len(orders)))
         IN  IF DateKeyLeq(rest, RawDateKey(orders[1]))
             THEN RawDateKey(orders[1]) ELSE rest

\* weeks_since of lines 363-370, `now` being the day datetime.now() gives.
WeeksSinceLast(cat_orders, now) ==
    LET last_order == MaxDateKey(cat_orders)
    IN  IF last_order.t = "iso"
        THEN Max(1, IntDiv(now - last_order.d, DaysPerWeek))
        ELSE 4

\* _generate_strategy(signal, sensitivity), lines 437-465: the template.
GenerateStrategy(signal, sensitivity) ==
    CASE signal.likely_competitor_type = "cash_and_carry" ->
             IF signal.win_back_probability > 60
             THEN "cash_and_carry: bulk pricing match"
             ELSE "cash_and_carry: bundle deal"
      [] signal.likely_competitor_type = "wholesaler" ->
             IF signal.win_back_probability > 60
             THEN "wholesaler: match pricing"
             ELSE "wholesaler: quality differentiation"
      [] signal.likely_competitor_type = "direct_manufacturer" ->
             "direct_manufacturer: convenience"
      [] OTHER ->
             IF sensitivity.sensitivity_score > 600
             THEN "price-sensitive: aggressive discount"
             ELSE "service quality and relationship"

\* round(x, n) of a float x that carries a rounding error: the nearest
\* value, and at an exact tie of the real number either neighbour, as the
\* error decides (0.7 - 0.95 * 0.3 - 0.12 + 0.08 - 0.04 is 0.33499999999999996,
\* rounded to 0.33; 0.7 - 0.6 * 0.3 - 0.06 - 0.2 * 0.2 + ... may fall above).
RoundFloat(num, den, tie_up) ==
    LET floor == IntDiv(num, den)
        twice == 2 * (num - floor * den)
    IN  IF twice > den \/ (twice = den /\ tie_up) THEN floor + 1 ELSE floor

\* The CompetitorSignal of a pair with the type of its strongest pattern.
SignalOfStrongest(entry, signals, inferred, avg_strength, win_back, tie_up) ==
    [customer_id |-> entry.customer_id,
     category |-> entry.category,
     signal_strength |-> RoundHalfEven(10 * avg_strength.num, avg_strength.den),
     signal_type |->
         signals[CHOOSE k \in 1..Len(signals) :
                     \A j \in 1..Len(signals) :
                         signals[k].strength.num * signals[j].strength.den
                             >= signals[j].strength.num * signals[k].strength.den].type,
     evidence |-> [k \in 1..Len(signals) |-> signals[k].description],
     likely_competitor_type |-> inferred.type,
     estimated_competitor_price_advantage |-> inferred.price_advantage,
     win_back_probability |-> RoundFloat(100 * win_back.num, win_back.den, tie_up)]

\* The CompetitorSignal of a pair, lines 376-385: the strength in tenths, the
\* win-back probability in hundredths.
SignalOf(entry, signals, inferred, avg_strength, win_back, tie_up) ==
    [customer_id |-> entry.customer_id,
     category |-> entry.category,
     signal_strength |-> RoundHalfEven(10 * avg_strength.num, avg_strength.den),
     signal_type |-> signals[1].type,
     evidence |-> [k \in 1..Len(signals) |-> signals[k].description],
     likely_competitor_type |-> inferred.type,
     estimated_competitor_price_advantage |-> inferred.price_advantage,
     win_back_probability |-> RoundFloat(100 * win_back.num, win_back.den, tie_up)]

\* Lines 357-386 for a pair with signals.
SignalFrom(entry, signals, sensitivity, inferred, avg_strength, now, tie_up) ==
    SignalOf(entry, signals, inferred, avg_strength,
             calculate_win_back_probability(
                 avg_strength, WeeksSinceLast(entry.orders, now),
                 sensitivity.sensitivity_score, inferred.price_advantage),
             tie_up)

\* Lines 354-386, given the patterns and the sensitivity of the pair.
PairResult(entry, signals, sensitivity, now, tie_up) ==
    [profile |-> [customer_id |-> entry.customer_id, category |-> entry.category,
                  sensitivity |-> sensitivity],
     signals |-> IF Len(signals) > 0
                 THEN <<SignalFrom(entry, signals, sensitivity,
                                   infer_competitor_type(entry.category, signals),
                                   MeanStrength(signals), now, tie_up)>>
                 ELSE <<>>]

\* One iteration of the inner loop of analyze, lines 348-386: the profile
\* and the signal appended, if any.
CompetitorPair(entry, now, tie_up, negative_error) ==
    PairResult(entry,
               analyze_order_patterns(entry.orders, entry.category).signals,
               calculate_price_sensitivity(entry.orders, entry.category,
                                           negative_error),
               now, tie_up)

\* Lines 354 and 386: the profile stored, the signal appended.
Collect(collected, pair) ==
    [profiles |-> Append(collected.profiles, pair.profile),
     signals |-> collected.signals \o pair.signals]

\* What two runs of iterations collect, one after the other.
CollectBoth(first, second) ==
    [profiles |-> first.profiles \o second.profiles,
     signals |-> first.signals \o second.signals]

\* The loops of lines 345-386 over grouped[lo..hi]: the iterations in order,
\* those of the first half of a range before those of the second.
RECURSIVE CompetitorPairsOver(_, _, _, _, _, _)
CompetitorPairsOver(grouped, lo, hi, now, tie_up, negative_error) ==
    IF lo > hi THEN [profiles |-> <<>>, signals |-> <<>>]
    ELSE IF lo < hi
         THEN CollectBoth(CompetitorPairsOver(grouped, lo, (lo + hi) \div 2,
                                              now, tie_up, negative_error),
                          CompetitorPairsOver(grouped, (lo + hi) \div 2 + 1, hi,
                                              now, tie_up, negative_error))
    ELSE Collect([profiles |-> <<>>, signals |-> <<>>],
                 CompetitorPair(grouped[lo], now, tie_up, negative_error))

\* The loops of lines 345-386 over grouped[1..i].
CompetitorPairsUpTo(grouped, i, now, tie_up, negative_error) ==
    CompetitorPairsOver(grouped, 1, i, now, tie_up, negative_error)

\* The signals sorted by ascending strength.
SortSignalsAscending(signals) ==
    StableSort(signals, [i, j \in 1..Len(signals) |->
                            signals[i].signal_strength <= signals[j].signal_strength])

\* competitor_signals.sort(key=lambda s: -s.signal_strength), line 389:
\* equal strengths in their original order.
SortSignals(signals) ==
    StableSort(signals, [i, j \in 1..Len(signals) |->
                            -signals[i].signal_strength <= -signals[j].signal_strength])

\* The number of signals that get a retention strategy, line 393.
top_strategies == 15

\* A join that finds no profile.
SensitivityOfNoKey(profiles, customer_id, category) == <<>>

\* sensitivity_profiles.get(customer_id, {}).get(category): the profiles
\* stored under the key, at most one.
SensitivityOf(profiles, customer_id, category) ==
    SelectSeq(profiles, LAMBDA p : p.customer_id = customer_id /\ p.category = category)

\* The strategy of one signal given the profiles found under its key, lines
\* 394-412; the discount and the ROI in percent points.
StrategyWith(signal, found) ==
    [customer_id |-> signal.customer_id,
     category |-> signal.category,
     competitor_type |-> signal.likely_competitor_type,
     win_back_probability |-> signal.win_back_probability,
     recommended_discount |->
         IF Len(found) > 0
         THEN Min(found[1].sensitivity.optimal_discount_range[2],
                  signal.estimated_competitor_price_advantage + 2)
         ELSE signal.estimated_competitor_price_advantage,
     strategy |-> IF Len(found) > 0
                  THEN GenerateStrategy(signal, found[1].sensitivity)
                  ELSE GenerateStrategy(signal, [sensitivity_score |-> 0]),
     expected_roi |->
         signal.win_back_probability
             - (IF Len(found) > 0
                THEN Min(found[1].sensitivity.optimal_discount_range[2],
                         signal.estimated_competitor_price_advantage + 2)
                ELSE signal.estimated_competitor_price_advantage)]

\* _count_by_key(signals, key), lines 467-473.
CountByKey(signals, key) ==
    [v \in {signals[i][key] : i \in 1..Len(signals)} |->
        Cardinality({i \in 1..Len(signals) : signals[i][key] = v})]

\* The categories ordered by descending count, equal counts in the order of
\* their first signal: sorted(cat_counts.keys(), key=lambda c: -cat_counts[c]).
CategoriesByCount(signals, i) ==
    LET count(x) == Cardinality({k \in 1..Len(signals) : signals[k].category = x})
        first == SelectSeq([k \in 1..i |-> k],
                           LAMBDA k : \A j \in 1..(k - 1) :
                                          signals[j].category # signals[k].category)
        keys == [k \in 1..Len(first) |-> signals[first[k]].category]
    IN  StableSort(keys, [k, l \in 1..Len(keys) |-> -count(keys[k]) <= -count(keys[l])])

\* _get_top_categories(signals), lines 475-480.
GetTopCategories(signals) ==
    LET sorted == CategoriesByCount(signals, Len(signals))
    IN  SubSeq(sorted, 1, Min(5, Len(sorted)))

\* The summary, lines 415-425.
CompetitorSummary(grouped, signals) ==
    [total_customers_analyzed |->
         Cardinality({grouped[i].customer_id : i \in 1..Len(grouped)}),
     customers_with_competitor_signals |->
         Cardinality({signals[i].customer_id : i \in 1..Len(signals)}),
     total_signals |-> Len(signals),
     signals_by_type |-> CountByKey(signals, "signal_type"),
     signals_by_competitor |-> CountByKey(signals, "likely_competitor_type"),
     avg_win_back_probability |->
         IF Len(signals) > 0
         THEN RoundHalfEven(Sum([i \in 1..Len(signals) |->
                                    signals[i].win_back_probability]),
                            Len(signals))
         ELSE 0,
     categories_most_at_risk |-> GetTopCategories(signals)]

\* The report, lines 388-435, given the profiles and the sorted signals.
CompetitorReport(grouped, profiles, competitor_signals) ==
    [exc |-> "",
     competitor_signals |-> competitor_signals,
     price_sensitivity |-> profiles,
     retention_strategies |->
         [k \in 1..Min(top_strategies, Len(competitor_signals)) |->
             StrategyWith(competitor_signals[k],
                          SensitivityOf(profiles, competitor_signals[k].customer_id,
                                        competitor_signals[k].category))],
     summary |-> CompetitorSummary(grouped, competitor_signals)]

\* Lines 342-435 on the grouped orders.
CompetitorAnalyzeGrouped(grouped, done) ==
    CompetitorReport(grouped, done.profiles, SortSignals(done.signals))

\* CompetitorIntelligenceEngine.analyze(orders), lines 316-435, with `now`
\* the day datetime.now() gives, `tie_up` the way the rounding ties of the
\* win-back probabilities fall and `negative_error` the way the rounding
\* errors of the correlations fall: [exc] when it raises, else the report.
competitor_analyze(orders, now, tie_up, negative_error) ==
    IF competitor_group(orders).exc # "" THEN [exc |-> competitor_group(orders).exc]
    ELSE CompetitorAnalyzeGrouped(
             competitor_group(orders).grouped,
             CompetitorPairsUpTo(competitor_group(orders).grouped,
                                 Len(competitor_group(orders).grouped),
                                 now, tie_up, negative_error))

(***************************************************************************)
(* The inputs.                                                             *)
(***************************************************************************)
\* The day number of the reference date of a run.
RefDay == 100

\* Words of product labels.
Words == {"Chicken", "WINGS", "Cola", "Cheese", "Sauce", "Salad", "Flour",
          "Watermelon", "Tomato", "Juice"}

\* The labels of at most n words.
RECURSIVE LabelsOf(_)
LabelsOf(n) ==
    IF n = 0 THEN {""}
    ELSE LET shorter == LabelsOf(n - 1)
         IN  shorter \cup Words
                 \cup {l \o " " \o w : l \in shorter \ {""}, w \in Words}

Labels == LabelsOf(MaxWords)

\* All sequences over S of length at most n.
RECURSIVE SeqsUpTo(_, _)
SeqsUpTo(S, n) ==
    IF n = 0 THEN {<<>>}
    ELSE LET shorter == SeqsUpTo(S, n - 1)
         IN  shorter \cup {Append(q, x) : q \in shorter, x \in S}

EmptyDict == [k \in {} |-> None]

\* Order dates of the runs: ISO dates inside the baseline window, on the
\* boundary of both windows and recent; missing and unparseable dates.
IsoDates == {Iso(RefDay - 56), Iso(RefDay - 28), Iso(RefDay - 7)}
BrokenDates == {None, Str("n/a")}

\* Quantities: with a baseline order of 800 (100 a week), a recent order of
\* 80, 120, 240, 260 or 800 gives a current rate of 20, 30, 60, 65 or 200.
Quantities == {80, 120, 240, 260, 800}

Order(c, q, d) ==
    [customer_id |-> Str(c), product |-> Str("Chicken Wings"),
     quantity |-> Num(q), value |-> Num(2 * q), date |-> d]

\* The well-formed orders analyze is run on.
Orders ==
    {Order(c, q, d) : c \in {"A", "B"}, q \in Quantities, d \in IsoDates}
        \cup {Order(c, 80, d) : c \in {"A", "B"}, d \in BrokenDates}
        \cup {Order("A", 80, Iso(RefDay + 7))}

\* A long history of one pair: n orders, one a day, oldest first or newest
\* first in the batch.
LongHistory(n, newest_first, q) ==
    [i \in 1..n |->
        [customer_id |-> Str("A"), product |-> Str("Chicken Wings"),
         quantity |-> Num(q), value |-> Num(2 * q),
         date |-> Iso(IF newest_first THEN RefDay - i ELSE RefDay - n - 1 + i)]]

LongHistories ==
    {LongHistory(n, f, q) :
        n \in (history_len - 1)..(history_len + MaxExtra),
        f \in BOOLEAN, q \in Quantities}

\* Batches of n pairs, customers C1, C2, ... with two products each, every
\* pair with an order of 800 inside the baseline window and a recent order of
\* 80 or 240 (a drop of 80% or 40%), the values differing from pair to pair;
\* all the old orders come first.
ManyPairBatches ==
    LET customer(i) == Str("C" \o ToString((i + 1) \div 2))
        product(i) == Str(IF i % 2 = 1 THEN "Chicken Wings" ELSE "Cola")
    IN  {[i \in 1..n |->
             [customer_id |-> customer(i), product |-> product(i),
              quantity |-> Num(800),
              value |-> Num(100 * (1 + ((i * (2 + v)) % 5))),
              date |-> Iso(RefDay - 56)]]
         \o
         [i \in 1..n |->
             [customer_id |-> customer(i), product |-> product(i),
              quantity |-> Num(IF (i \div 2) % 2 = 0 THEN 80 ELSE 240),
              value |-> Num(10), date |-> Iso(RefDay - 7)]] :
            n \in (top_recommendations - 1)..(top_recommendations + MaxExtra),
            v \in {1, 2}}

\* The raw records parse_orders is run on: every way of naming the customer
\* and the product, and every way of giving quantity, value and date.
CustomerParts ==
    {EmptyDict, [customer_id |-> Str("A")], [customer |-> Str("B")],
     [account |-> Str("A")], [customer_id |-> Str(""), customer |-> Str("A")]}

ProductParts ==
    {EmptyDict, [product |-> Str("Chicken Wings")], [product |-> Str("Wings")],
     [item |-> Str("Cola")], [category |-> Str("Flour")]}

QuantityParts ==
    {EmptyDict, [quantity |-> Num(5)], [quantity |-> Num(0)],
     [quantity |-> Str("abc")], [quantity |-> None, qty |-> Str("7")]}

ValueParts ==
    {EmptyDict, [value |-> Num(9)], [value |-> Str("n/a")], [amount |-> Num(4)]}

DateParts ==
    {EmptyDict, [date |-> Iso(RefDay - 7)], [order_date |-> Iso(RefDay - 56)]}

RawOrders ==
    {Merge(c, Merge(p, [quantity |-> Num(5), value |-> Num(9),
                        date |-> Iso(RefDay - 7)])) :
        c \in CustomerParts, p \in ProductParts}
    \cup
    {Merge([customer_id |-> Str("A"), product |-> Str("Chicken Wings")],
           Merge(q, Merge(v, d))) :
        q \in QuantityParts, v \in ValueParts, d \in DateParts}

CompetitorOrder(c, p, q, v, d) ==
    [customer_id |-> Str(c), product |-> Str(p),
     quantity |-> Num(q), value |-> Num(v), date |-> d]

\* The raw orders the competitor engine is run on: quantities that give
\* drops of 0%, 30%, 50%, 70% and 100% and, from 7 to 3, of four sevenths;
\* prices of 1/2 to 20/3 a unit.
CompetitorOrders ==
    {CompetitorOrder("A", "Chicken Wings", q, v, Iso(RefDay - 7)) :
        q \in {0, 3, 5, 7, 10}, v \in {5, 20}}
    \cup {CompetitorOrder("A", p, q, 20, Iso(RefDay - 14)) :
              p \in {"Chicken Wings", "Drinks"}, q \in {7, 10}}
    \cup {CompetitorOrder("A", "Drinks", 5, 20, Iso(RefDay - 7))}

\* Pairs that stopped: three orders of the given quantities and values, then
\* three orders of quantity 0, the last one dated or not.
LossHistories ==
    {[i \in 1..6 |->
         CompetitorOrder("A", "Packaging", IF i <= 3 THEN qs[i] ELSE 0,
                         IF i <= 3 THEN vs[i] ELSE 0,
                         IF i = 6 THEN last ELSE Iso(RefDay - 70 + 7 * i))] :
        qs \in {<<4, 4, 4>>, <<2, 4, 4>>, <<4, 2, 4>>},
        vs \in {<<8, 8, 8>>, <<8, 12, 8>>},
        last \in {Iso(RefDay - 28), Str("n/a")}}

\* Batches of n pairs of two orders each, customers C1, C2, ... and products
\* of a different competitor type each, every pair with a volume drop of 40%,
\* 50% or 60% and every third one with a lower price as well.
ManySignalBatches ==
    LET customer(i) == Str("C" \o ToString((i + 1) \div 2))
        product(i) == Str(CASE i % 3 = 0 -> "Chicken Wings"
                            [] i % 3 = 1 -> "Drinks"
                            [] OTHER -> "Packaging")
    IN  {[i \in 1..n |->
             [customer_id |-> customer(i), product |-> product(i),
              quantity |-> Num(10), value |-> Num(20),
              date |-> Iso(RefDay - 14)]]
         \o
         [i \in 1..n |->
             [customer_id |-> customer(i), product |-> product(i),
              quantity |-> Num(4 + ((i * v) % 3)),
              value |-> Num(IF i % 3 = 2 THEN 4 ELSE 2 * (4 + ((i * v) % 3))),
              date |-> Iso(RefDay - 7)]] :
            n \in (top_strategies - 1)..(top_strategies + MaxExtra), v \in {1, 2}}

\* The arguments detect_trend is run on.
TrendDates ==
    {None, Str(""), Str("n/a")}
        \cup {Iso(RefDay - k) : k \in {-7, 0, 27, 28, 29, 70}}

(***************************************************************************)
(* The state: one call of one method.                                      *)
(***************************************************************************)
VARIABLES pc, method, args, result

vars == <<pc, method, args, result>>

NoResult == [exc |-> "", pending |-> TRUE]

Called(m, a) ==
    /\ pc = "call"
    /\ method = m
    /\ args = a
    /\ result = NoResult

Finish(r) ==
    /\ pc' = IF r.exc # "" THEN "raise" ELSE "return"
    /\ result' = r
    /\ UNCHANGED <<method, args>>

\* ProductLevelChurnEngine.normalize_category(raw_category)
NormalizeCategory ==
    /\ pc = "call"
    /\ method = "normalize_category"
    /\ Finish([exc |-> "", category |-> normalize_category(args.raw_category)])

\* ProductLevelChurnEngine.parse_orders(orders)
ParseOrders ==
    /\ pc = "call"
    /\ method = "parse_orders"
    /\ Finish(parse_orders(args.orders))

\* The grouping loop of CompetitorIntelligenceEngine.analyze(orders)
CompetitorGroup ==
    /\ pc = "call"
    /\ method = "competitor_group"
    /\ Finish(competitor_group(args.orders))

\* ProductLevelChurnEngine.detect_trend(baseline_qty, current_qty,
\*                                      last_order_date, reference_date)
DetectTrend ==
    /\ pc = "call"
    /\ method = "detect_trend"
    /\ Finish([exc |-> "",
               trend |-> detect_trend(args.baseline_qty, args.current_qty,
                                      args.last_order_date, args.reference_date)])

\* ProductLevelChurnEngine.analyze(orders, reference_date)
Analyze ==
    /\ pc = "call"
    /\ method = "analyze"
    /\ Finish(analyze(args.orders, args.reference_date))

\* CompetitorIntelligenceEngine.calculate_win_back_probability(...)
CalculateWinBackProbability ==
    /\ pc = "call"
    /\ method = "calculate_win_back_probability"
    /\ Finish([exc |-> "",
               probability |->
                   calculate_win_back_probability(
                       args.signal_strength, args.weeks_since_loss,
                       args.sensitivity_score, args.competitor_advantage)])

\* CompetitorIntelligenceEngine.calculate_price_sensitivity(orders, category);
\* the rounding error of the correlation falls one way or the other.
CalculatePriceSensitivity ==
    /\ pc = "call"
    /\ method = "calculate_price_sensitivity"
    /\ \E negative_error \in BOOLEAN :
           Finish([exc |-> "",
                   profile |-> calculate_price_sensitivity(args.orders, args.category,
                                                           negative_error)])

\* CompetitorIntelligenceEngine.analyze_order_patterns(orders, category)
AnalyzeOrderPatterns ==
    /\ pc = "call"
    /\ method = "analyze_order_patterns"
    /\ Finish([exc |-> "",
               patterns |-> analyze_order_patterns(args.orders, args.category)])

\* CompetitorIntelligenceEngine.infer_competitor_type(category, signals)
InferCompetitorType ==
    /\ pc = "call"
    /\ method = "infer_competitor_type"
    /\ Finish([exc |-> "",
               inferred |-> infer_competitor_type(args.category, args.signals)])

\* CompetitorIntelligenceEngine.analyze(orders); the clock is read once per
\* pair with a signal, on one day, and the ties of round(win_back, 2) and
\* the rounding errors of the correlations fall one way each.
CompetitorAnalyze ==
    /\ pc = "call"
    /\ method = "competitor_analyze"
    /\ \E now \in {RefDay, RefDay + 70}, tie_up \in BOOLEAN,
          negative_error \in BOOLEAN :
           Finish(competitor_analyze(args.orders, now, tie_up, negative_error))

InitNormalize ==
    \E l \in Labels \cup {category_synonyms[i].category :
                             i \in 1..Len(category_synonyms)} :
        Called("normalize_category", [raw_category |-> l])

InitParse ==
    \E m \in {"parse_orders", "competitor_group"} :
        \E batch \in SeqsUpTo(RawOrders, MaxRawOrders) :
            Called(m, [orders |-> batch])

InitTrend ==
    \E b \in (-2)..MaxRate \cup {100}, c \in 0..MaxRate \cup {65, 100},
       last \in TrendDates :
        Called("detect_trend",
               [baseline_qty |-> b, current_qty |-> c,
                last_order_date |-> last, reference_date |-> RefDay])

Init ==
    \E batch \in SeqsUpTo(Orders, MaxOrders) \cup LongHistories
                  \cup ManyPairBatches :
        Called("analyze", [orders |-> batch, reference_date |-> Iso(RefDay)])

InitCompetitor ==
    \/ \E s \in {Rat(-500, 1), Rat(0, 1), Rat(50, 1), Rat(400, 7), Rat(100, 1),
                  Rat(1000, 1)},
          w \in {-5, 0, 1, 4, 10, 100},
          c \in {-100, 400, 401, 600, 601, 1000, 2000},
          a \in {-50, 0, 10, 20, 500} :
           Called("calculate_win_back_probability",
                  [signal_strength |-> s, weeks_since_loss |-> w,
                   sensitivity_score |-> c, competitor_advantage |-> a])
    \/ \E m \in {"calculate_price_sensitivity", "analyze_order_patterns"} :
           \E batch \in SeqsUpTo({o \in CompetitorOrders :
                                     o.product = Str("Chicken Wings")},
                                 MaxCompetitorOrders)
                            \cup LossHistories :
               Called(m, [orders |-> batch, category |-> "chicken"])
    \/ \E batch \in SeqsUpTo({CompetitorOrder("A", "Chicken Wings", o[1], o[2],
                                                Iso(RefDay - 7)) :
                                    o \in {<<1, 2>>, <<1, 5>>, <<2, 5>>, <<3, 2>>,
                                           <<7, 2>>, <<7, 5>>}},
                               4) :
           /\ Len(batch) >= 3
           /\ \E m \in {"calculate_price_sensitivity", "analyze_order_patterns"} :
                  Called(m, [orders |-> batch, category |-> "chicken"])
    \/ \E category \in {"drinks", "chicken", "packaging", "consumables", "cheese", ""},
          types \in SeqsUpTo({"volume_split", "complete_loss", "frequency_drop",
                              "promo_only", "xcomplete_stop",
                              "gradual_decline_volume_drop"}, MaxSignals) :
           Called("infer_competitor_type",
                  [category |-> category,
                   signals |-> [j \in 1..Len(types) |-> [type |-> types[j]]]])
    \/ \E batch \in SeqsUpTo(CompetitorOrders, MaxCompetitorOrders)
                        \cup LossHistories \cup ManySignalBatches :
           Called("competitor_analyze", [orders |-> batch])

NextNormalize == NormalizeCategory
NextParse == ParseOrders \/ CompetitorGroup
NextTrend == DetectTrend
NextCompetitor ==
    \/ CalculateWinBackProbability
    \/ CalculatePriceSensitivity
    \/ AnalyzeOrderPatterns
    \/ InferCompetitorType
    \/ CompetitorAnalyze
Next == Analyze

SpecNormalize == InitNormalize /\ [][NextNormalize]_vars
SpecParse == InitParse /\ [][NextParse]_vars
SpecTrend == InitTrend /\ [][NextTrend]_vars
SpecCompetitor == InitCompetitor /\ [][NextCompetitor]_vars
Spec == Init /\ [][Next]_vars

(***************************************************************************)
(* Properties of detect_trend (SpecTrend).                                 *)
(***************************************************************************)
TrendReturned == method = "detect_trend" /\ pc = "return"

\* The last order date is a date at least stopped_weeks before the reference.
SilentForStoppedWeeks ==
    /\ args.last_order_date.t = "iso"
    /\ args.reference_date - args.last_order_date.d >= stopped_weeks * DaysPerWeek

\* C1: detect_trend returns 'stopped' for every baseline and current rate
\* whenever the last order date is at least 4 weeks (28 days) before the
\* reference date; no relative-rate rule overrides the inactivity rule.
C1_InactivityDominates ==
    (TrendReturned /\ SilentForStoppedWeeks) => result.trend = "stopped"

\* 10 weeks since the last order, baseline 100, current 100: 'stopped'.
C1_Witness ==
    /\ TrendReturned
    /\ args.last_order_date = Iso(args.reference_date - 70)
    /\ args.baseline_qty = 100
    /\ args.current_qty = 100
    /\ result.trend = "stopped"

MatchingCategories(raw_lower) ==
    {i \in 1..Len(category_synonyms) :
        \E k \in 1..Len(category_synonyms[i].synonyms) :
            In(category_synonyms[i].synonyms[k], raw_lower)}

\* C10: normalize_category returns the first canonical category, in
\* declaration order, that has a synonym occurring as a substring of the
\* lower-cased label, and the lower-cased label when no synonym matches.
C10_FirstDeclaredMatch ==
    (method = "normalize_category" /\ pc = "return") =>
        LET raw_lower == Lower(args.raw_category)
            matching == MatchingCategories(raw_lower)
        IN  IF matching = {}
            THEN result.category = raw_lower
            ELSE \E i \in matching :
                    /\ \A j \in matching : i <= j
                    /\ result.category = category_synonyms[i].category

\* A label with synonyms of two categories resolves to the earlier one.
C10_Witness ==
    /\ method = "normalize_category"
    /\ pc = "return"
    /\ Cardinality(MatchingCategories(Lower(args.raw_category))) >= 2
    /\ args.raw_category = "Tomato Juice"
    /\ result.category = "drinks"

(***************************************************************************)
(* Properties of analyze (Spec).                                           *)
(***************************************************************************)
AnalyzeReturned == method = "analyze" /\ pc = "return"

\* The alerts of the report for the pair of profile p.
AlertsOf(p) ==
    {j \in 1..Len(result.alerts) :
        /\ result.alerts[j].customer_id = p.customer_id
        /\ result.alerts[j].category = p.category}

ProfileIndexes == 1..Len(result.customer_profiles)

\* C3: in the report of analyze a (customer, category) profile has an alert
\* if and only if its trend is 'declining' or 'stopped': such a profile has
\* exactly one alert, whose signal_type is the profile's trend, and a
\* 'stable' or 'growing' profile has none.
C3_AlertIffDecliningOrStopped ==
    AnalyzeReturned =>
        /\ \A i \in ProfileIndexes :
              LET p == result.customer_profiles[i]
              IN  IF p.trend \in {"declining", "stopped"}
                  THEN /\ Cardinality(AlertsOf(p)) = 1
                       /\ \A j \in AlertsOf(p) : result.alerts[j].signal_type = p.trend
                  ELSE AlertsOf(p) = {}
        /\ \A j \in 1..Len(result.alerts) :
              \E i \in ProfileIndexes : j \in AlertsOf(result.customer_profiles[i])

\* A report with a declining or stopped pair, alerted, beside a stable or
\* growing pair without alert.
C3_Witness ==
    /\ AnalyzeReturned
    /\ \E i \in ProfileIndexes :
          /\ result.customer_profiles[i].trend \in {"declining", "stopped"}
          /\ Cardinality(AlertsOf(result.customer_profiles[i])) = 1
    /\ \E i \in ProfileIndexes :
          /\ result.customer_profiles[i].trend \in {"stable", "growing"}
          /\ AlertsOf(result.customer_profiles[i]) = {}

\* The severity the rule gives: dropPct = (baseline - current) / baseline * 100,
\* 0 when the baseline is 0.
DropAtLeast(b, c, pct) == b > 0 /\ 100 * (b - c) >= pct * b

ExpectedSeverity(trend, b, c) ==
    IF trend = "stopped" \/ DropAtLeast(b, c, 70) THEN "critical"
    ELSE IF DropAtLeast(b, c, 40) THEN "warning"
    ELSE "watch"

\* The weekly rates, in units of 1/8, that the orders of a run can add up to.
CandidateRates ==
    {0} \cup {2 * q : q \in Quantities}
        \cup {2 * (q1 + q2) : q1 \in Quantities, q2 \in Quantities}

GroupedOrdersOf(p) ==
    LET grouped == parse_orders(args.orders).grouped
        i == CHOOSE k \in 1..Len(grouped) :
                 /\ grouped[k].customer_id = p.customer_id
                 /\ grouped[k].category = p.category
    IN  grouped[i].orders

Range(seq) == {seq[i] : i \in 1..Len(seq)}

\* C5: the order_history of every profile is ordered most-recent-first and,
\* when the pair has more than 20 orders, consists of the 20 most recent
\* orders of the pair.
C5_HistoryIsMostRecent20 ==
    AnalyzeReturned =>
        \A i \in ProfileIndexes :
            LET p == result.customer_profiles[i]
                history == p.order_history
                all == GroupedOrdersOf(p)
            IN  /\ \A k \in 1..(Len(history) - 1) :
                       DateKeyGeq(history[k].date, history[k + 1].date)
                /\ Len(all) > 20 =>
                       /\ Len(history) = 20
                       /\ \A left_out \in Range(all) \ Range(history) :
                              \A kept \in Range(history) :
                                  DateKeyGeq(kept.date, left_out.date)

\* C6: analyze never raises because of order dates: with any subset of the
\* orders lacking a date or carrying an unparseable one, the run completes
\* and returns a report.
C6_DatesNeverAbortTheRun ==
    (method = "analyze" /\ pc # "call" /\ parse_orders(args.orders).exc = "") =>
        pc = "return"

(***************************************************************************)
(* Properties of parse_orders and of the competitor grouping (SpecParse).  *)
(***************************************************************************)
ParseFinished == method = "parse_orders" /\ pc # "call"

\* The number a quantity or value field gives: itself when numeric, 0 when
\* it is not a number.
GivenNumber(v) ==
    IF v.t = "num" THEN v.v
    ELSE IF v.t = "str" /\ v.v \in NumericStrings THEN NumberOf(v.v)
    ELSE 0

\* The quantity of a record: 1 when it has neither `quantity` nor `qty`.
RecordQuantity(r) ==
    IF "quantity" \notin DOMAIN r /\ "qty" \notin DOMAIN r THEN 1
    ELSE IF "quantity" \in DOMAIN r /\ r.quantity.t # "none" THEN GivenNumber(r.quantity)
    ELSE IF "qty" \in DOMAIN r THEN GivenNumber(r.qty)
    ELSE 0

\* The value of a record: 0 when it has none.
RecordValue(r) ==
    IF "value" \in DOMAIN r THEN GivenNumber(r.value)
    ELSE IF "amount" \in DOMAIN r THEN GivenNumber(r.amount)
    ELSE IF "total" \in DOMAIN r THEN GivenNumber(r.total)
    ELSE 0

\* The input records with a customer and a product, of one key.
RecordsOfKey(orders, customer_id, category) ==
    SelectSeq(orders, LAMBDA r :
        /\ ~Skipped(r)
        /\ CustomerOf(r) = customer_id
        /\ normalize_category(ProductOf(r).v) = category)

KeysOf(grouped) ==
    {<<grouped[i].customer_id, grouped[i].category>> : i \in 1..Len(grouped)}

\* C7: parse_orders never raises on a record whose quantity or value is
\* non-numeric or missing: it is coerced to 0, and the stored quantity is 1
\* only when both `quantity` and `qty` are absent (an explicit quantity of 0
\* stays 0).
C7_CoercionNeverRaises ==
    ParseFinished =>
        /\ pc = "return"
        /\ \A i \in 1..Len(result.grouped) :
              LET g == result.grouped[i]
                  records == RecordsOfKey(args.orders, g.customer_id, g.category)
              IN  \A k \in 1..Len(g.orders) :
                      /\ k <= Len(records)
                      /\ g.orders[k].quantity = RecordQuantity(records[k])
                      /\ g.orders[k].value = RecordValue(records[k])

\* C8: flattening the grouped result yields exactly one entry per input
\* record that has a customer and a product, carrying that record's date,
\* quantity and value under the key (customer, normalize_category(product));
\* the records missing from the result are those lacking customer or product.
C8_RoundTrip ==
    ParseFinished =>
        /\ pc = "return"
        /\ KeysOf(result.grouped) =
               {<<CustomerOf(args.orders[n]),
                  normalize_category(ProductOf(args.orders[n]).v)>> :
                    n \in {m \in 1..Len(args.orders) : ~Skipped(args.orders[m])}}
        /\ \A i \in 1..Len(result.grouped) :
              LET g == result.grouped[i]
                  records == RecordsOfKey(args.orders, g.customer_id, g.category)
              IN  /\ Len(g.orders) = Len(records)
                  /\ \A k \in 1..Len(g.orders) :
                         g.orders[k] = [date |-> DateOf(records[k]),
                                        quantity |-> RecordQuantity(records[k]),
                                        value |-> RecordValue(records[k])]
        /\ Len(args.orders)
               - SumOf([i \in 1..Len(result.grouped) |->
                           [n |-> Len(result.grouped[i].orders)]], "n")
             = Cardinality({m \in 1..Len(args.orders) : Skipped(args.orders[m])})

\* C9: the competitor engine groups as parse_orders does: the same set of
\* (customer, category) keys and the same orders under each key, also for
\* records identified through `account` or `item` and for labels that reach
\* a canonical category only through a synonym.
C9_SameGroupingAsParseOrders ==
    (method = "competitor_group" /\ pc # "call"
        /\ parse_orders(args.orders).exc = "") =>
        LET churn == parse_orders(args.orders).grouped
        IN  /\ pc = "return"
            /\ KeysOf(result.grouped) = KeysOf(churn)
            /\ \A i \in 1..Len(result.grouped) : \A j \in 1..Len(churn) :
                  (/\ result.grouped[i].customer_id = churn[j].customer_id
                   /\ result.grouped[i].category = churn[j].category) =>
                      /\ Len(result.grouped[i].orders) = Len(churn[j].orders)
                      /\ \A k \in 1..Len(churn[j].orders) :
                             ParsedEntry(result.grouped[i].orders[k])
                                 = churn[j].orders[k]

(***************************************************************************)
(* Properties of the alerts, recommendations and rates of analyze (Spec).  *)
(***************************************************************************)
\* C13: the alerts of the report are ordered by severity rank (critical,
\* warning, watch) and within one severity by non-increasing estimated lost
\* revenue; the recommendations are the first min(10, number of alerts)
\* alerts in that order, with priorities 1, 2, ..., k.
C13_AlertsRankedTopTenRecommended ==
    AnalyzeReturned =>
        LET alerts == result.alerts
            recs == result.recommendations
        IN  /\ \A k \in 1..(Len(alerts) - 1) :
                  \/ SeverityRank(alerts[k].severity)
                         < SeverityRank(alerts[k + 1].severity)
                  \/ /\ alerts[k].severity = alerts[k + 1].severity
                     /\ alerts[k].estimated_lost_revenue
                            >= alerts[k + 1].estimated_lost_revenue
            /\ Len(recs) = (IF Len(alerts) < 10 THEN Len(alerts) ELSE 10)
            /\ \A k \in 1..Len(recs) :
                  /\ recs[k].priority = k
                  /\ recs[k].customer_id = alerts[k].customer_id
                  /\ recs[k].category = alerts[k].category
                  /\ recs[k].potential_save = alerts[k].estimated_lost_revenue
                  /\ recs[k].discount = alerts[k].recommended_discount
                  /\ recs[k].action = alerts[k].recommended_action

\* More than 10 alerts of both severities and of different lost revenue,
\* 10 recommendations.
C13_Witness ==
    /\ AnalyzeReturned
    /\ Len(result.alerts) > 10
    /\ Len(result.recommendations) = 10
    /\ result.recommendations[10].priority = 10
    /\ result.alerts[1].severity = "critical"
    /\ result.alerts[Len(result.alerts)].severity = "warning"
    /\ \E k \in 1..(Len(result.alerts) - 1) :
          /\ result.alerts[k].severity = result.alerts[k + 1].severity
          /\ result.alerts[k].estimated_lost_revenue
                 > result.alerts[k + 1].estimated_lost_revenue

\* The orders of the batch that belong to the pair of profile p.
OwnOrders(p) ==
    SelectSeq(args.orders, LAMBDA r :
        /\ ~Skipped(r)
        /\ CustomerOf(r) = p.customer_id
        /\ normalize_category(ProductOf(r).v) = p.category)

\* C15: for a fixed reference date the profile and the alert of a pair
\* depend on that pair's orders only: the run on the pair's orders alone
\* gives the same profile and the same alert as the run on the whole batch.
C15_PairsAreIndependent ==
    AnalyzeReturned =>
        \A i \in ProfileIndexes :
            LET p == result.customer_profiles[i]
                alone == analyze(OwnOrders(p), args.reference_date)
            IN  /\ alone.exc = ""
                /\ alone.customer_profiles = <<p>>
                /\ Range(alone.alerts) = {result.alerts[j] : j \in AlertsOf(p)}

\* A report over two pairs with different orders, one of them alerted.
C15_Witness ==
    /\ AnalyzeReturned
    /\ Len(result.customer_profiles) >= 2
    /\ \E i \in ProfileIndexes : \E k \in ProfileIndexes :
          /\ AlertsOf(result.customer_profiles[i]) # {}
          /\ AlertsOf(result.customer_profiles[k]) = {}
          /\ result.customer_profiles[i].order_history
                 # result.customer_profiles[k].order_history

\* C16: an alert's competitor_likely is true exactly when the baseline
\* weekly quantity is positive and the current weekly quantity is strictly
\* below 0.3 times the baseline; baseline 100, current 20 with the last
\* order one week ago is 'stopped', 'critical' and competitor_likely.
C16_CompetitorLikelyRule ==
    AnalyzeReturned =>
        \A i \in ProfileIndexes : \A j \in AlertsOf(result.customer_profiles[i]) :
            LET p == result.customer_profiles[i]
                a == result.alerts[j]
                b == p.baseline_weekly_qty
                c == p.current_weekly_qty
            IN  /\ a.competitor_likely <=> (b > 0 /\ 10 * c < 3 * b)
                /\ (/\ b = 100 * RateUnit
                    /\ c = 20 * RateUnit
                    /\ p.last_order_date = Iso(args.reference_date.d - 7)) =>
                       /\ a.signal_type = "stopped"
                       /\ a.severity = "critical"
                       /\ a.competitor_likely

\* The scenario of the rule: an order of 800 eight weeks ago and one of 80 a
\* week ago.
C16_Witness ==
    /\ AnalyzeReturned
    /\ Len(args.orders) = 2
    /\ \E i \in ProfileIndexes : \E j \in AlertsOf(result.customer_profiles[i]) :
          LET p == result.customer_profiles[i]
          IN  /\ p.baseline_weekly_qty = 100 * RateUnit
              /\ p.current_weekly_qty = 20 * RateUnit
              /\ p.last_order_date = Iso(args.reference_date.d - 7)
              /\ result.alerts[j].signal_type = "stopped"
              /\ result.alerts[j].competitor_likely

\* A pair stopped by inactivity alone, its current rate not below 0.3 of
\* the baseline: not flagged.
StoppedByInactivityOnly ==
    /\ AnalyzeReturned
    /\ \E i \in ProfileIndexes : \E j \in AlertsOf(result.customer_profiles[i]) :
          LET p == result.customer_profiles[i]
          IN  /\ p.last_order_date = Iso(args.reference_date.d - 28)
              /\ 10 * p.current_weekly_qty >= 3 * p.baseline_weekly_qty
              /\ result.alerts[j].signal_type = "stopped"
              /\ ~result.alerts[j].competitor_likely

\* The date-sorted order list of the pair of profile p, as analyze sorts it.
SortedOrdersOf(p) == SortByDateDesc(GroupedOrdersOf(p))

\* The orders of a list dated within [reference - first days, reference -
\* last days].
DatedWithin(orders, first, last) ==
    SelectSeq(orders, LAMBDA o :
        /\ o.date.t = "iso"
        /\ args.reference_date.d - first <= o.date.d
        /\ o.date.d <= args.reference_date.d - last)

C18_CurrentWindowEndsAtReference ==
    AnalyzeReturned =>
        \A i \in ProfileIndexes :
            LET p == result.customer_profiles[i]
                recent == DatedWithin(GroupedOrdersOf(p), 28, 0)
            IN  /\ p.current_weekly_qty * 4 = SumOf(recent, "quantity") * RateUnit
                /\ p.current_weekly_value * 4 = SumOf(recent, "value") * RateUnit

(***************************************************************************)
(* Properties of the competitor engine (SpecCompetitor).                   *)
(***************************************************************************)
WinBackReturned == method = "calculate_win_back_probability" /\ pc = "return"

CompetitorAnalyzeReturned ==
    method = "competitor_analyze" /\ pc = "return" /\ result.exc = ""

\* The indexes of the signals of the report.
SignalIndexes == 1..Len(result.competitor_signals)

\* C11: calculate_win_back_probability returns a value within [0.1, 0.9]
\* whatever the strength, the weeks since the loss, the sensitivity score and
\* the competitor advantage are, negative and out-of-range ones included, and
\* every CompetitorSignal of a report of analyze carries a
\* win_back_probability within [0.1, 0.9].
C11_WinBackWithinBounds ==
    /\ WinBackReturned =>
           /\ 10 * result.probability.num >= result.probability.den
           /\ 10 * result.probability.num <= 9 * result.probability.den
    /\ CompetitorAnalyzeReturned =>
           \A i \in SignalIndexes :
               /\ result.competitor_signals[i].win_back_probability >= 10
               /\ result.competitor_signals[i].win_back_probability <= 90

\* A pair lost ten weeks ago to a direct manufacturer, with a low price
\* sensitivity: 0.7 - 0.285 - 0.3 - 0.04 is below 0.1 and the signal carries 0.1.
C11_Witness ==
    /\ CompetitorAnalyzeReturned
    /\ \E i \in SignalIndexes :
           /\ result.competitor_signals[i].signal_type = "complete_loss"
           /\ result.competitor_signals[i].signal_strength = 950
           /\ result.competitor_signals[i].likely_competitor_type = "direct_manufacturer"
           /\ result.competitor_signals[i].win_back_probability = 10

\* The function returns the bounds themselves for out-of-range arguments.
WinBackClampedBothWays ==
    /\ WinBackReturned
    /\ \/ args.signal_strength.num = 1000
          /\ 10 * result.probability.num = result.probability.den
       \/ args.signal_strength.num = -500
          /\ 10 * result.probability.num = 9 * result.probability.den

\* C12: calculate_price_sensitivity called with an empty order list or with
\* a single order returns, without raising, the neutral default profile:
\* score 50, elasticity 1.0, acceptable premium 10, response 'neutral',
\* discount band (5, 15).
C12_NeutralDefaultProfile ==
    (/\ method = "calculate_price_sensitivity"
     /\ pc # "call"
     /\ Len(args.orders) < 2)
    => /\ pc = "return"
       /\ result.profile.sensitivity_score = 500
       /\ result.profile.price_elasticity = 100
       /\ result.profile.acceptable_premium = 10
       /\ result.profile.historical_price_response = "neutral"
       /\ result.profile.optimal_discount_range = <<5, 15>>

\* A single order with a positive quantity, for which the general path would
\* answer 'moderately_sensitive'.
C12_Witness ==
    /\ method = "calculate_price_sensitivity"
    /\ pc = "return"
    /\ Len(args.orders) = 1
    /\ args.orders[1].quantity = Num(10)
    /\ result.profile.customer_id = Str("A")
    /\ result.profile.historical_price_response = "neutral"

\* The empty list: the default profile of customer 'unknown'.
DefaultProfileOfNoOrders ==
    /\ method = "calculate_price_sensitivity"
    /\ pc = "return"
    /\ Len(args.orders) = 0
    /\ result.profile.customer_id = Str("unknown")
    /\ result.profile.historical_price_response = "neutral"

\* The maximum of the discount band of the profile the report holds for the
\* pair of a signal.
BandMaximumOf(signal) ==
    LET k == CHOOSE k \in 1..Len(result.price_sensitivity) :
                 /\ result.price_sensitivity[k].customer_id = signal.customer_id
                 /\ result.price_sensitivity[k].category = signal.category
    IN  result.price_sensitivity[k].sensitivity.optimal_discount_range[2]

\* C14: in the report of CompetitorIntelligenceEngine.analyze the signals
\* are ordered by non-increasing signal strength, and the retention
\* strategies are the first min(15, number of signals) signals in that order,
\* one strategy per signal, each with recommended discount
\* min(maximum of the pair's discount band, competitor advantage + 2).
C14_SignalsRankedTopFifteenStrategies ==
    CompetitorAnalyzeReturned =>
        /\ \A i, j \in SignalIndexes :
               i < j => result.competitor_signals[i].signal_strength
                            >= result.competitor_signals[j].signal_strength
        /\ Len(result.retention_strategies)
               = (IF Len(result.competitor_signals) < 15
                  THEN Len(result.competitor_signals) ELSE 15)
        /\ \A k \in 1..Len(result.retention_strategies) :
               LET signal == result.competitor_signals[k]
                   strategy == result.retention_strategies[k]
                   band_max == BandMaximumOf(signal)
                   matched == signal.estimated_competitor_price_advantage + 2
               IN  /\ strategy.customer_id = signal.customer_id
                   /\ strategy.category = signal.category
                   /\ strategy.recommended_discount
                          = (IF band_max < matched THEN band_max ELSE matched)

\* More than 15 signals of different strengths, given in another order than
\* that of their strengths; one of the 15 strategies is capped by the band,
\* another by the competitor advantage.
C14_Witness ==
    /\ CompetitorAnalyzeReturned
    /\ Len(result.competitor_signals) > 15
    /\ Len(result.retention_strategies) = 15
    /\ result.competitor_signals[1].signal_strength
           > result.competitor_signals[16].signal_strength
    /\ result.competitor_signals[1].customer_id # args.orders[1].customer_id
    /\ \E k \in 1..15 :
           /\ BandMaximumOf(result.competitor_signals[k])
                  < result.competitor_signals[k].estimated_competitor_price_advantage + 2
           /\ result.retention_strategies[k].recommended_discount
                  = BandMaximumOf(result.competitor_signals[k])
    /\ \E k \in 1..15 :
           /\ BandMaximumOf(result.competitor_signals[k])
                  > result.competitor_signals[k].estimated_competitor_price_advantage + 2
           /\ result.retention_strategies[k].recommended_discount
                  = result.competitor_signals[k].estimated_competitor_price_advantage + 2

PatternsReturned == method = "analyze_order_patterns" /\ pc = "return"

\* The quantities of the early half and of the recent half of the orders
\* given to analyze_order_patterns.
EarlyHalfQuantity ==
    LET sorted_orders == SortByDateAsc(args.orders)
        mid_point == Len(sorted_orders) \div 2
    IN  RawSum(IF mid_point > 0 THEN SubSeq(sorted_orders, 1, mid_point)
               ELSE sorted_orders, "quantity")

RecentHalfQuantity ==
    LET sorted_orders == SortByDateAsc(args.orders)
        mid_point == Len(sorted_orders) \div 2
    IN  RawSum(IF mid_point > 0
               THEN SubSeq(sorted_orders, mid_point + 1, Len(sorted_orders))
               ELSE <<>>, "quantity")

\* The types of the detected patterns, in order.
DetectedTypes ==
    [k \in 1..Len(result.patterns.signals) |-> result.patterns.signals[k].type]

\* C19: analyze_order_patterns emits the volume_split signal exactly when
\* the early-half quantity and the recent-half quantity are both positive and
\* the recent quantity is at least 30% and at most 70% lower than the early
\* quantity, a drop of exactly 30% or exactly 70% included, and never when the
\* recent quantity is 0.
C19_VolumeSplitBetween30And70 ==
    PatternsReturned =>
        /\ ("volume_split" \in Range(DetectedTypes))
               <=> /\ EarlyHalfQuantity > 0
                   /\ RecentHalfQuantity > 0
                   /\ 100 * (EarlyHalfQuantity - RecentHalfQuantity)
                          >= 30 * EarlyHalfQuantity
                   /\ 100 * (EarlyHalfQuantity - RecentHalfQuantity)
                          <= 70 * EarlyHalfQuantity
        /\ RecentHalfQuantity = 0 => "volume_split" \notin Range(DetectedTypes)

\* What the code does: the signal for the drops strictly between 30% and 70%.
VolumeSplitStrictlyBetween ==
    PatternsReturned =>
        (("volume_split" \in Range(DetectedTypes))
            <=> /\ EarlyHalfQuantity > 0
                /\ RecentHalfQuantity > 0
                /\ 100 * (EarlyHalfQuantity - RecentHalfQuantity)
                       > 30 * EarlyHalfQuantity
                /\ 100 * (EarlyHalfQuantity - RecentHalfQuantity)
                       < 70 * EarlyHalfQuantity)

\* The place of a pattern in the order the patterns are tested in.
PatternRank(type) ==
    CASE type = "volume_split" -> 1
      [] type = "complete_loss" -> 2
      [] type = "frequency_drop" -> 3
      [] type = "promo_only" -> 4

\* The patterns detected on the orders of the pair of a signal.
PatternsOfPair(signal) ==
    LET grouped == competitor_group(args.orders).grouped
        k == CHOOSE k \in 1..Len(grouped) :
                 /\ grouped[k].customer_id = signal.customer_id
                 /\ grouped[k].category = signal.category
    IN  analyze_order_patterns(grouped[k].orders, grouped[k].category).signals

\* The sum of the strengths of the patterns, as [num, den].
RECURSIVE TotalStrength(_)
TotalStrength(patterns) ==
    IF Len(patterns) = 0 THEN Rat(0, 1)
    ELSE LET rest == TotalStrength(SubSeq(patterns, 2, Len(patterns)))
         IN  Rat(patterns[1].strength.num * rest.den
                     + rest.num * patterns[1].strength.den,
                 patterns[1].strength.den * rest.den)

\* The detected patterns come in the order volume_split, complete_loss,
\* frequency_drop, promo_only; the signal has the type of the first one and
\* lists every one of them, in that order, as evidence.
TypeIsFirstDetectedEvidenceInOrder ==
    /\ PatternsReturned =>
           \A i, j \in 1..Len(DetectedTypes) :
               i < j => PatternRank(DetectedTypes[i]) < PatternRank(DetectedTypes[j])
    /\ CompetitorAnalyzeReturned =>
           /\ \A i \in SignalIndexes :
                  LET signal == result.competitor_signals[i]
                      patterns == PatternsOfPair(signal)
                  IN  /\ Len(patterns) >= 1
                      /\ \A k \in 1..Len(patterns) :
                             PatternRank(signal.signal_type)
                                 <= PatternRank(patterns[k].type)
                      /\ \E k \in 1..Len(patterns) :
                             signal.signal_type = patterns[k].type
                      /\ signal.evidence
                             = [k \in 1..Len(patterns) |-> patterns[k].description]
           /\ LET grouped == competitor_group(args.orders).grouped
              IN  \A k \in 1..Len(grouped) :
                      Len(analyze_order_patterns(grouped[k].orders,
                                                 grouped[k].category).signals) >= 1
                      => \E i \in SignalIndexes :
                             /\ result.competitor_signals[i].customer_id
                                    = grouped[k].customer_id
                             /\ result.competitor_signals[i].category
                                    = grouped[k].category

\* C20 as stated: for every pair with at least one detected pattern the
\* signal_type of its CompetitorSignal is the first detected pattern in the
\* order volume_split, complete_loss, frequency_drop, promo_only, whatever the
\* strengths are, signal_strength is the mean of the strengths of all the
\* detected patterns, and evidence lists every detected pattern in that order.
C20_FirstDetectedTypeMeanStrength ==
    /\ TypeIsFirstDetectedEvidenceInOrder
    /\ CompetitorAnalyzeReturned =>
           \A i \in SignalIndexes :
               LET signal == result.competitor_signals[i]
                   patterns == PatternsOfPair(signal)
                   total == TotalStrength(patterns)
               IN  signal.signal_strength * total.den * Len(patterns)
                       = 10 * total.num

\* C20 amended: as above, with signal_strength the mean of the strengths
\* rounded to one decimal place, that is within 0.05 of the mean.
C20_FirstDetectedTypeRoundedMeanStrength ==
    /\ TypeIsFirstDetectedEvidenceInOrder
    /\ CompetitorAnalyzeReturned =>
           \A i \in SignalIndexes :
               LET signal == result.competitor_signals[i]
                   patterns == PatternsOfPair(signal)
                   total == TotalStrength(patterns)
                   unit == total.den * Len(patterns)
               IN  /\ 2 * (signal.signal_strength * unit - 10 * total.num) <= unit
                   /\ 2 * (10 * total.num - signal.signal_strength * unit) <= unit

\* Quantities 7 then 3 at a lower price: volume_split of strength 400/7 comes
\* before the stronger promo_only of strength 60; the mean 58.571... is
\* stored as 58.6.
C20_Witness ==
    /\ CompetitorAnalyzeReturned
    /\ \E i \in SignalIndexes :
           /\ result.competitor_signals[i].signal_type = "volume_split"
           /\ Len(result.competitor_signals[i].evidence) = 2
           /\ [k \in 1..2 |-> PatternsOfPair(result.competitor_signals[i])[k].type]
                  = <<"volume_split", "promo_only">>
           /\ PatternsOfPair(result.competitor_signals[i])[1].strength = Rat(400, 7)
           /\ result.competitor_signals[i].signal_strength = 586

(***************************************************************************)
(* Properties of infer_competitor_type (SpecCompetitor).                   *)
(***************************************************************************)
InferReturned == method = "infer_competitor_type" /\ pc = "return"

\* The archetypes in the order they are declared in.
Archetypes == <<"cash_and_carry", "wholesaler", "direct_manufacturer", "online">>

\* The score of the k-th archetype for the arguments of the call: 30 for a
\* category match and 25 for each indicator that is a substring of the type
\* of some signal.
ArchetypeScore(k) ==
    LET matched == {i \in 1..Len(competitor_patterns[k].indicators) :
                       \E j \in 1..Len(args.signals) :
                           In(competitor_patterns[k].indicators[i],
                              args.signals[j].type)}
    IN  (IF args.category \in competitor_patterns[k].categories THEN 30 ELSE 0)
            + 25 * Cardinality(matched)

\* The first-declared archetype among those of the highest score.
TopArchetype ==
    CHOOSE k \in 1..Len(Archetypes) :
        /\ \A j \in 1..Len(Archetypes) : ArchetypeScore(j) <= ArchetypeScore(k)
        /\ \A j \in 1..(k - 1) : ArchetypeScore(j) < ArchetypeScore(k)

\* C21: infer_competitor_type scores each archetype 30 for a category match
\* and 25 per indicator that is a substring of a signal type, returns the
\* archetype of the highest score with its typical advantage, the first
\* declared one among equal top scores, and ('unknown', 10) when no archetype
\* scores above 0.
C21_HighestScoreFirstDeclared ==
    InferReturned =>
        /\ \A k \in 1..Len(Archetypes) : competitor_patterns[k].type = Archetypes[k]
        /\ IF ArchetypeScore(TopArchetype) > 0
           THEN result.inferred
                    = [type |-> Archetypes[TopArchetype],
                       price_advantage |->
                           competitor_patterns[TopArchetype].typical_advantage]
           ELSE result.inferred = [type |-> "unknown", price_advantage |-> 10]

\* One signal type holds an indicator of wholesaler and one of online, the
\* category matches no archetype: both score 25 and wholesaler is returned.
C21_Witness ==
    /\ InferReturned
    /\ ArchetypeScore(2) = 25
    /\ ArchetypeScore(4) = 25
    /\ ArchetypeScore(1) = 0
    /\ ArchetypeScore(3) = 0
    /\ result.inferred = [type |-> "wholesaler", price_advantage |-> 10]

(***************************************************************************)
(* Properties of calculate_price_sensitivity (SpecCompetitor).             *)
(***************************************************************************)
SensitivityReturned == method = "calculate_price_sensitivity" /\ pc = "return"

\* The prices of the orders with a positive quantity, on the common
\* denominator of the product of these quantities.
PricesOfCall ==
    LET priced == SelectSeq(args.orders, LAMBDA o : RawQuantity(o) > 0)
        common == Product([i \in 1..Len(priced) |-> RawQuantity(priced[i])])
    IN  [i \in 1..Len(priced) |->
            RawValue(priced[i]) * (common \div RawQuantity(priced[i]))]

\* The correlation is computed: two different prices and two price changes
\* at least.
CorrelationComputed ==
    /\ Len(PricesOfCall) >= 3
    /\ Cardinality(Range(PricesOfCall)) >= 2

\* The sign of the correlation of the price changes with the quantity
\* changes, in exact arithmetic.
ExactCorrelationSign ==
    Correlation(Changes(PricesOfCall),
                Changes([i \in 1..Len(args.orders) |-> RawQuantity(args.orders[i])]),
                FALSE).sign

\* The band that goes with a response.
BandOfResponse(response) ==
    CASE response = "highly_sensitive" -> <<5, <<10, 20>> >>
      [] response = "moderately_sensitive" -> <<10, <<5, 15>> >>
      [] response = "low_sensitivity" -> <<20, <<0, 10>> >>

\* C22: for every order list of length >= 2 the sensitivity score lies in
\* [0, 100] and is clamp(elasticity x 50, 0, 100), up to the rounding of the
\* two stored numbers; the band is a function of the score: above 70
\* highly_sensitive with premium 5 and band (10, 20), above 40 and at most 70
\* moderately_sensitive with premium 10 and band (5, 15), at most 40
\* low_sensitivity with premium 20 and band (0, 10), a stored score that the
\* rounding has put on 70.0 or 40.0 going with either neighbour; and the
\* elasticity is 0.5 whenever the correlation is zero or positive.
C22_ScoreBandsAndFlatElasticity ==
    (SensitivityReturned /\ Len(args.orders) >= 2) =>
        LET profile == result.profile
            score == profile.sensitivity_score
            response == profile.historical_price_response
        IN  /\ score >= 0
            /\ score <= 1000
            /\ Abs(score - Min(1000, Max(0, 5 * profile.price_elasticity))) <= 3
            /\ response \in {"highly_sensitive", "moderately_sensitive",
                              "low_sensitivity"}
            /\ score > 700 => response = "highly_sensitive"
            /\ (score > 400 /\ score < 700) => response = "moderately_sensitive"
            /\ score < 400 => response = "low_sensitivity"
            /\ score = 700 => response # "low_sensitivity"
            /\ score = 400 => response # "highly_sensitive"
            /\ <<profile.acceptable_premium, profile.optimal_discount_range>>
                   = BandOfResponse(response)
            /\ (CorrelationComputed /\ ExactCorrelationSign >= 0)
                   => profile.price_elasticity = 50

(***************************************************************************)
(* Properties of the profiles of the competitor report (SpecCompetitor).   *)
(***************************************************************************)
\* The places of the profiles the report holds under a key.
ProfilesUnder(customer_id, category) ==
    {k \in 1..Len(result.price_sensitivity) :
        /\ result.price_sensitivity[k].customer_id = customer_id
        /\ result.price_sensitivity[k].category = category}

\* The (customer, category) pairs of the grouped input.
GroupedPairs ==
    {<<entry.customer_id, entry.category>> :
        entry \in Range(competitor_group(args.orders).grouped)}

\* C23: after CompetitorIntelligenceEngine.analyze every (customer,
\* category) pair of the grouped input has exactly one profile and every
\* signal has a profile under its own key, so that every retention strategy
\* is computed from the profile of its pair: the discount is the smaller of
\* the band maximum and the advantage plus 2, never the raw advantage of a
\* missed join.
C23_OneProfilePerPairJoinNeverMisses ==
    CompetitorAnalyzeReturned =>
        /\ \A pair \in GroupedPairs : Cardinality(ProfilesUnder(pair[1], pair[2])) = 1
        /\ Len(result.price_sensitivity) = Cardinality(GroupedPairs)
        /\ \A i \in SignalIndexes :
               /\ <<result.competitor_signals[i].customer_id,
                     result.competitor_signals[i].category>> \in GroupedPairs
               /\ Cardinality(ProfilesUnder(result.competitor_signals[i].customer_id,
                                            result.competitor_signals[i].category)) = 1
        /\ \A k \in 1..Len(result.retention_strategies) :
               LET signal == result.competitor_signals[k]
                   profile == result.price_sensitivity[
                                  CHOOSE p \in ProfilesUnder(signal.customer_id,
                                                             signal.category) : TRUE]
               IN  /\ result.retention_strategies[k].recommended_discount
                          = Min(profile.sensitivity.optimal_discount_range[2],
                                signal.estimated_competitor_price_advantage + 2)
                   /\ result.retention_strategies[k].strategy
                          = GenerateStrategy(signal, profile.sensitivity)

\* A customer with two categories, both with a signal, among several
\* customers: as many profiles as pairs, and a strategy for the customer
\* whose discount is not the raw advantage.
C23_Witness ==
    /\ CompetitorAnalyzeReturned
    /\ Cardinality(GroupedPairs) > Cardinality({pair[1] : pair \in GroupedPairs})
    /\ Cardinality({pair[1] : pair \in GroupedPairs}) > 1
    /\ Len(result.price_sensitivity) = Cardinality(GroupedPairs)
    /\ \E k \in 1..Len(result.retention_strategies) :
           /\ \E other \in GroupedPairs :
                  /\ other[1] = result.competitor_signals[k].customer_id
                  /\ other[2] # result.competitor_signals[k].category
           /\ result.retention_strategies[k].recommended_discount
                  # result.competitor_signals[k].estimated_competitor_price_advantage

(***************************************************************************)
(* Properties of the recommended discount (Spec).                          *)
(***************************************************************************)
\* The discount the rule gives to a severity and a drop in tenths of a
\* percent, in units of 1/200: min(25, 10 + drop/10), min(15, 5 + drop/20), 5.
DiscountRule(severity, drop_percentage) ==
    CASE severity = "critical" ->
             IF 10 * DiscountUnit + 2 * drop_percentage < 25 * DiscountUnit
             THEN 10 * DiscountUnit + 2 * drop_percentage
             ELSE 25 * DiscountUnit
      [] severity = "warning" ->
             IF 5 * DiscountUnit + drop_percentage < 15 * DiscountUnit
             THEN 5 * DiscountUnit + drop_percentage
             ELSE 15 * DiscountUnit
      [] OTHER -> 5 * DiscountUnit

C24_WitnessBothSeverities ==
    /\ AnalyzeReturned /\ result.exc = ""
    /\ \E j, k \in 1..Len(result.alerts) :
           /\ result.alerts[j].severity = "critical"
           /\ result.alerts[j].recommended_discount = 18 * DiscountUnit
           /\ result.alerts[k].severity = "warning"
           /\ result.alerts[k].recommended_discount = 7 * DiscountUnit

(***************************************************************************)
(* Properties of the severities of a report (Spec).                        *)
(***************************************************************************)
\* C25: no alert of a report has severity 'watch': a 'declining' pair has a
\* baseline above 0 and a drop of at least 40%, which makes its alert a
\* warning, and the alert of a 'stopped' pair is critical; so
\* summary.watch_alerts is 0 and total_alerts is critical_alerts plus
\* warning_alerts.
C25_NoWatchAlert ==
    AnalyzeReturned /\ result.exc = "" =>
        /\ \A j \in 1..Len(result.alerts) : result.alerts[j].severity # "watch"
        /\ \A i \in ProfileIndexes : \A j \in AlertsOf(result.customer_profiles[i]) :
               LET p == result.customer_profiles[i]
               IN  /\ p.trend = "declining" =>
                          /\ p.baseline_weekly_qty > 0
                          /\ 100 * (p.baseline_weekly_qty - p.current_weekly_qty)
                                 >= 40 * p.baseline_weekly_qty
                          /\ result.alerts[j].drop_percentage >= 400
                          /\ result.alerts[j].severity = "warning"
                   /\ p.trend = "stopped" => result.alerts[j].severity = "critical"
        /\ result.summary.watch_alerts = 0
        /\ result.summary.total_alerts
               = result.summary.critical_alerts + result.summary.warning_alerts

\* A report with a warning for a drop of exactly 40%, the least severe alert
\* there is, beside a critical alert: the two counts add up to the total.
C25_Witness ==
    /\ AnalyzeReturned /\ result.exc = ""
    /\ result.summary.warning_alerts >= 1
    /\ result.summary.critical_alerts >= 1
    /\ result.summary.total_alerts >= 2
    /\ \E j \in 1..Len(result.alerts) :
           /\ result.alerts[j].signal_type = "declining"
           /\ result.alerts[j].severity = "warning"
           /\ result.alerts[j].drop_percentage = 400

(***************************************************************************)
(* Properties of the frequency_drop pattern (SpecCompetitor).              *)
(***************************************************************************)
\* The numbers of orders of the early half and of the recent half of the
\* orders given to analyze_order_patterns (lines 110-112).
EarlyHalfCount ==
    IF Len(args.orders) \div 2 > 0 THEN Len(args.orders) \div 2 ELSE Len(args.orders)

RecentHalfCount ==
    IF Len(args.orders) \div 2 > 0
    THEN Len(args.orders) - Len(args.orders) \div 2
    ELSE 0

\* No pattern of the call and no signal of the report is frequency_drop.
NeverFrequencyDrop ==
    /\ PatternsReturned => "frequency_drop" \notin Range(DetectedTypes)
    /\ CompetitorAnalyzeReturned =>
           \A i \in SignalIndexes :
               /\ result.competitor_signals[i].signal_type # "frequency_drop"
               /\ \A k \in 1..Len(result.competitor_signals[i].evidence) :
                      result.competitor_signals[i].evidence[k].text
                          # "Order frequency dropped significantly"

\* C26 as stated: analyze_order_patterns never emits the frequency_drop
\* signal, and for every order list it splits the recent half has at least
\* as many orders as the early half, so that twice the recent count is never
\* below half the early count.
C26_NeverFrequencyDropRecentHalfNeverSmaller ==
    /\ NeverFrequencyDrop
    /\ PatternsReturned /\ Len(args.orders) >= 1 =>
           /\ RecentHalfCount >= EarlyHalfCount
           /\ 2 * (2 * RecentHalfCount) >= EarlyHalfCount

\* C26 amended: analyze_order_patterns never emits the frequency_drop
\* signal: a list of two or more orders has at least as many orders in the
\* recent half as in the early half, so twice the recent count is not below
\* half the early count, and a single order is all of the early half beside
\* an empty recent half, which the pattern's guard of at least two early
\* orders and one recent order excludes.
C26_NeverFrequencyDropForAnyList ==
    /\ NeverFrequencyDrop
    /\ PatternsReturned /\ Len(args.orders) >= 2 =>
           /\ RecentHalfCount >= EarlyHalfCount
           /\ 2 * (2 * RecentHalfCount) >= EarlyHalfCount
    /\ PatternsReturned /\ Len(args.orders) = 1 =>
           /\ EarlyHalfCount = 1
           /\ RecentHalfCount = 0
           /\ 2 * (2 * RecentHalfCount) < EarlyHalfCount

\* A call on four orders, two in each half, passes the guard of the pattern
\* and returns without a frequency_drop.
C26_Witness ==
    /\ PatternsReturned
    /\ EarlyHalfCount >= 2
    /\ RecentHalfCount >= 1
    /\ Len(args.orders) = 4
    /\ "frequency_drop" \notin Range(DetectedTypes)

(***************************************************************************)
(* Properties of the two windows of a profile (Spec).                      *)
(***************************************************************************)
\* The orders of the pair of profile p that calculate_baseline counts inside
\* the baseline window and calculate_current counts as well.
CountedTwice(p) ==
    SelectSeq(GroupedOrdersOf(p),
              LAMBDA o : /\ InBaselineWindow(o, args.reference_date.d)
                         /\ InRecentWindow(o, args.reference_date.d))

\* C27: no order contributes to both the baseline sum and the current sum
\* of its profile: an order counted inside the baseline window by
\* calculate_baseline is not counted by calculate_current, an order dated
\* exactly 4 weeks before the reference date included.
C27_NoOrderInBothWindows ==
    AnalyzeReturned /\ result.exc = "" =>
        \A i \in ProfileIndexes : CountedTwice(result.customer_profiles[i]) = <<>>

\* What the code does: the orders counted by both are those dated exactly
\* recent_weeks before the reference date, and each of them is in both sums.
OnlyTheBoundaryDayCountedTwice ==
    AnalyzeReturned /\ result.exc = "" =>
        \A i \in ProfileIndexes :
            LET p == result.customer_profiles[i]
                boundary == DatedWithin(GroupedOrdersOf(p), recent_weeks * DaysPerWeek,
                                        recent_weeks * DaysPerWeek)
            IN  /\ CountedTwice(p) = boundary
                /\ boundary # <<>> =>
                       /\ p.baseline_weekly_qty * baseline_weeks
                              >= SumOf(boundary, "quantity") * RateUnit
                       /\ p.current_weekly_qty * recent_weeks
                              >= SumOf(boundary, "quantity") * RateUnit

(***************************************************************************)
(* Properties of the complete_loss pattern (SpecCompetitor).               *)
(***************************************************************************)
\* C28: whenever analyze_order_patterns detects complete_loss it detects no
\* other pattern (the recent half has no quantity, which volume_split and
\* promo_only both require), and a CompetitorSignal of type complete_loss
\* has signal_strength exactly 95 and a single evidence entry.
C28_CompleteLossStandsAlone ==
    /\ PatternsReturned /\ "complete_loss" \in Range(DetectedTypes) =>
           /\ DetectedTypes = <<"complete_loss">>
           /\ RecentHalfQuantity = 0
           /\ result.patterns.signals[1].strength = Rat(95, 1)
    /\ CompetitorAnalyzeReturned =>
           \A i \in SignalIndexes :
               result.competitor_signals[i].signal_type = "complete_loss" =>
                   /\ result.competitor_signals[i].signal_strength = 950
                   /\ Len(result.competitor_signals[i].evidence) = 1
                   /\ result.competitor_signals[i].evidence[1].text
                          = "Complete stop after consistent ordering history"

\* A report with a complete_loss signal for a pair whose early orders had
\* changing prices (values 8, 12, 8 for quantities 4, 4, 4).
C28_Witness ==
    /\ CompetitorAnalyzeReturned
    /\ \E i \in SignalIndexes :
           /\ result.competitor_signals[i].signal_type = "complete_loss"
           /\ result.competitor_signals[i].signal_strength = 950
    /\ \E k \in 1..Len(args.orders) : args.orders[k].value = Num(12)

(***************************************************************************)
(* Properties of the archetype of a signal (SpecCompetitor).               *)
(***************************************************************************)
\* The categories the archetype of a signal list is compared on: one of
\* cash_and_carry and direct_manufacturer, one of wholesaler, one of
\* direct_manufacturer and online, one of online, and two of no archetype.
ArchetypeCategories == {"drinks", "chicken", "packaging", "consumables", "cheese", ""}

\* C29: for every category and every signal list that analyze_order_patterns
\* produces, infer_competitor_type returns the archetype and the price
\* advantage it returns for the category and an empty signal list: the
\* detected signals never change the result.
C29_ArchetypeByCategoryAlone ==
    /\ PatternsReturned =>
           /\ Range(DetectedTypes) \subseteq {"volume_split", "complete_loss", "promo_only"}
           /\ \A category \in ArchetypeCategories :
                  infer_competitor_type(category, result.patterns.signals)
                      = infer_competitor_type(category, <<>>)
    /\ InferReturned
           /\ (\A j \in 1..Len(args.signals) :
                   args.signals[j].type \in {"volume_split", "complete_loss", "promo_only"}) =>
           result.inferred = infer_competitor_type(args.category, <<>>)
    /\ CompetitorAnalyzeReturned =>
           \A i \in SignalIndexes :
               [type |-> result.competitor_signals[i].likely_competitor_type,
                price_advantage |->
                    result.competitor_signals[i].estimated_competitor_price_advantage]
                   = infer_competitor_type(result.competitor_signals[i].category, <<>>)

\* A report with a packaging signal of two detected patterns, volume_split
\* and promo_only, attributed to direct_manufacturer, the first archetype
\* declared for packaging, at its advantage of 20.
C29_Witness ==
    /\ CompetitorAnalyzeReturned
    /\ \E i \in SignalIndexes :
           /\ result.competitor_signals[i].category = "packaging"
           /\ Len(result.competitor_signals[i].evidence) = 2
           /\ result.competitor_signals[i].likely_competitor_type = "direct_manufacturer"
           /\ result.competitor_signals[i].estimated_competitor_price_advantage = 20

\* A call of infer_competitor_type on two produced signal types and a
\* category of no archetype returns ('unknown', 10).
C29_WitnessUnknown ==
    /\ InferReturned
    /\ args.category = ""
    /\ Len(args.signals) = 2
    /\ args.signals[1].type = "volume_split"
    /\ args.signals[2].type = "promo_only"
    /\ result.inferred = [type |-> "unknown", price_advantage |-> 10]

(***************************************************************************)
(* Idempotence of normalize_category (SpecNormalize).                      *)
(***************************************************************************)
NormalizeReturned == method = "normalize_category" /\ pc = "return"

\* The canonical category names.
CanonicalNames == {"chicken", "drinks", "cheese", "dips", "produce"}

\* C30: normalize_category is idempotent: normalizing the category it
\* returned for a label gives that category again; in particular each of the
\* canonical names chicken, drinks, cheese, dips and produce normalizes to
\* itself.
C30_NormalizeIdempotent ==
    NormalizeReturned =>
        /\ normalize_category(result.category) = result.category
        /\ normalize_category(normalize_category(args.raw_category))
               = normalize_category(args.raw_category)
        /\ args.raw_category \in CanonicalNames => result.category = args.raw_category
        /\ CanonicalNames = {category_synonyms[i].category :
                                i \in 1..Len(category_synonyms)}

\* An upper-case label of a synonym: the result, chicken, is neither the
\* label nor its lower-case form, and normalizes to itself.
C30_Witness ==
    /\ NormalizeReturned
    /\ args.raw_category = "WINGS"
    /\ result.category = "chicken"
    /\ normalize_category("chicken") = "chicken"

\* A canonical name given as the label: the last declared one, produce.
C30_WitnessCanonical ==
    /\ NormalizeReturned
    /\ args.raw_category = "produce"
    /\ result.category = "produce"

\* A label without synonym: the lower-cased label, which normalizes to itself.
C30_WitnessUnmatched ==
    /\ NormalizeReturned
    /\ args.raw_category = "Flour"
    /\ result.category = "flour"
    /\ normalize_category("flour") = "flour"
====
